---- MODULE Spec2Model ----
(***************************************************************************)
(* Verification model of the spicy-uno rules engine.                       *)
(*                                                                         *)
(*   client  src/client/src/engine/GameEngine.ts   (class GameEngine)      *)
(*           src/unnamed/part_006                  (CardDeck helpers)      *)
(*   server  src/unnamed/part_007                  (room host)             *)
(*                                                                         *)
(* Cards are identified by their position in createDeck() (the uuid of a   *)
(* card is abstracted to that position); 0 stands for JavaScript's         *)
(* `undefined`, both as an array entry and as an absent optional field.    *)
(* Array indexes are 0-based as in the source (findIndex yields -1 when    *)
(* nothing matches); sequences are accessed at index + 1.                  *)
(* turnStartTime, GameState.id and player names carry no behaviour and are *)
(* left out.                                                               *)
(***************************************************************************)
EXTENDS Integers, Sequences, FiniteSets, TLC

(***************************************************************************)
(* Bounds of the model.                                                    *)
(***************************************************************************)
\* number of operations applied to an engine / a room in one behaviour
MaxSteps == 2
\* number of outcomes of a shuffle that are explored (Math.random is input)
NumShuffles == 2
\* slap timestamps range over 1..MaxTimestamp
MaxTimestamp == 2
\* timeouts of the opponents that can be pending at the same time
MaxTimeouts == 1
\* the largest number of players and the largest skip of nextPlayer for which
\* the turn arithmetic is evaluated
MaxSeats == 5
MaxSkip == 3

(***************************************************************************)
(* JavaScript helpers.                                                     *)
(***************************************************************************)
Undefined == 0
NoColor == "none"

Min(S) == CHOOSE x \in S : \A y \in S : x <= y
Max(S) == CHOOSE x \in S : \A y \in S : x >= y

\* Array.prototype.slice(start, end) with negative indexes counted from the end
JsSlice(arr, start, end) ==
  LET len == Len(arr)
      k == IF start < 0 THEN (IF len + start < 0 THEN 0 ELSE len + start)
           ELSE (IF start > len THEN len ELSE start)
      f == IF end < 0 THEN (IF len + end < 0 THEN 0 ELSE len + end)
           ELSE (IF end > len THEN len ELSE end)
  IN SubSeq(arr, k + 1, f)

JsSliceFrom(arr, start) == JsSlice(arr, start, Len(arr))

\* hand.findIndex(c => c.id === cardId): 0-based index of the first match, -1 if none
findIndex(hand, cardId) ==
  LET m == {i \in 1..Len(hand) : hand[i] # Undefined /\ hand[i] = cardId}
  IN IF m = {} THEN -1 ELSE Min(m) - 1

\* the callback c => c.id === cardId reads c.id: a TypeError when an undefined
\* entry is reached before the first match
findThrows(hand, cardId) ==
  \E i \in 1..Len(hand) :
     /\ hand[i] = Undefined
     /\ \A j \in 1..(i - 1) : hand[j] # cardId

Reverse(s) == [i \in 1..Len(s) |-> s[Len(s) + 1 - i]]

RotateLeft(s, k) ==
  IF Len(s) = 0 THEN s
  ELSE [i \in 1..Len(s) |-> s[((i - 1 + k) % Len(s)) + 1]]

SeqToSet(s) == {s[i] : i \in 1..Len(s)}

(***************************************************************************)
(* CardDeck (src/unnamed/part_006).                                        *)
(***************************************************************************)
COLORS == <<"red", "yellow", "green", "blue">>
NUMBERS == <<"0", "1", "2", "3", "4", "5", "6", "7", "8", "9">>
ACTION_VALUES == <<"skip", "reverse", "draw2">>

createCard(color, value) == [color |-> color, value |-> value]

\* the cards pushed for one color: one 0, two of each 1-9, two of each action
ColorCards(color) ==
  <<createCard(color, NUMBERS[1])>>
  \o [i \in 1..18 |-> createCard(color, NUMBERS[((i + 1) \div 2) + 1])]
  \o [i \in 1..6 |-> createCard(color, ACTION_VALUES[(i + 1) \div 2])]

WildCards ==
  [i \in 1..8 |-> createCard("wild", IF i % 2 = 1 THEN "wild" ELSE "wild_draw4")]

createDeck ==
  ColorCards(COLORS[1]) \o ColorCards(COLORS[2]) \o ColorCards(COLORS[3])
  \o ColorCards(COLORS[4]) \o WildCards

DeckIds == 1..Len(createDeck)
\* an id that no card of the deck carries
BogusCardId == Len(createDeck) + 1

Color(c) == createDeck[c].color
Value(c) == createDeck[c].value
IsNumber(v) == v \in SeqToSet(NUMBERS)

\* Fisher-Yates can produce every permutation; the model explores NumShuffles of
\* them, selected by rnd: the identity, the reversal, then rotations
shuffleDeck(deck, rnd) ==
  IF rnd = 1 THEN deck
  ELSE IF rnd = 2 THEN Reverse(deck)
  ELSE RotateLeft(deck, rnd - 2)

drawCards(deck, count) ==
  [drawn |-> JsSlice(deck, 0, count), remaining |-> JsSliceFrom(deck, count)]

isPlayable(card, topCard, currentColor) ==
  IF Color(card) = "wild" THEN TRUE
  ELSE IF Color(card) = currentColor THEN TRUE
  ELSE IF Value(card) = Value(topCard) THEN TRUE
  ELSE FALSE

isExactMatch(card, topCard) ==
  /\ Color(card) = Color(topCard)
  /\ Value(card) = Value(topCard)
  /\ IsNumber(Value(card))

getCurrentColor(topCard, selectedColor) ==
  IF Color(topCard) = "wild" /\ selectedColor # NoColor THEN selectedColor
  ELSE IF Color(topCard) = "wild" THEN "red" ELSE Color(topCard)

isDrawCard(card) == Value(card) = "draw2" \/ Value(card) = "wild_draw4"
isSkipCard(card) == Value(card) = "skip"
isReverseCard(card) == Value(card) = "reverse"

getDrawAmount(card) ==
  IF Value(card) = "draw2" THEN 2
  ELSE IF Value(card) = "wild_draw4" THEN 4 ELSE 0

(***************************************************************************)
(* State.                                                                  *)
(*   state, selectedWildColor, config : the fields of a GameEngine         *)
(*   events  : the events the last operation emitted on the EventBus       *)
(*   outcome : how the last operation ended for its caller                 *)
(*   room    : the server's Room (config and gameState)                    *)
(*   message : the action handed to the last dispatch (client) or carried  *)
(*             by the last game_action message (server)                    *)
(*   steps   : operations applied so far                                   *)
(*   timeouts: the setTimeout callbacks that useAIPlayers has pending, and  *)
(*             the one that fired in the last step                         *)
(*   bus     : an EventBus with the handlers its callers registered, the   *)
(*             handler calls of the last emit and the last method called   *)
(***************************************************************************)
VARIABLES state, selectedWildColor, config, events, outcome, room, message, steps,
          timeouts, bus

vars == <<state, selectedWildColor, config, events, outcome, room, message, steps,
          timeouts, bus>>

\* what the engine and the server do not touch
hookVars == <<timeouts, bus>>

\* what the methods of an EventBus do not touch
gameVars == <<state, selectedWildColor, config, events, outcome, room, message, steps,
              timeouts>>

\* pendingAction: null
NullPending ==
  [type |-> "null", targetPlayer |-> Undefined, requesterId |-> Undefined,
   offererId |-> Undefined, offeredCardId |-> Undefined]

\* lastAction: null
NullAction ==
  [type |-> "null", playerId |-> Undefined, cardId |-> Undefined,
   targetPlayerId |-> Undefined, wildColor |-> NoColor, customRule |-> "none"]

Act(type, playerId, cardId, targetPlayerId, wildColor, customRule) ==
  [type |-> type, playerId |-> playerId, cardId |-> cardId,
   targetPlayerId |-> targetPlayerId, wildColor |-> wildColor,
   customRule |-> customRule]

\* an id that no player carries
GhostId == 9

newPlayer(index) ==
  [id |-> index + 1, hand |-> <<>>, hasCalledUno |-> FALSE, isConnected |-> TRUE]

(***************************************************************************)
(* GameEngine (src/client/src/engine/GameEngine.ts).  The methods are      *)
(* operators on an engine record eng = [state, selectedWildColor, events,  *)
(* threw]: threw records an uncaught TypeError, after which the remaining  *)
(* statements of the call are skipped.                                     *)
(***************************************************************************)
Engine ==
  [state |-> state, selectedWildColor |-> selectedWildColor,
   events |-> <<>>, threw |-> FALSE]

emit(eng, ev) ==
  IF eng.threw THEN eng ELSE [eng EXCEPT !.events = Append(@, ev)]

throw(eng) == [eng EXCEPT !.threw = TRUE]

withState(eng, newState) ==
  IF eng.threw THEN eng ELSE [eng EXCEPT !.state = newState]

findPlayerIndex(st, playerId) ==
  LET m == {i \in 1..Len(st.players) : st.players[i].id = playerId}
  IN IF m = {} THEN -1 ELSE Min(m) - 1

getTopCard(st) == st.discardPile[Len(st.discardPile)]

engineCurrentColor(eng) == getCurrentColor(getTopCard(eng.state), eng.selectedWildColor)

\* the filter callbacks of getValidMoves read card.color / card.value of every
\* entry of the hand
getValidMovesThrows(eng, playerId) ==
  LET st == eng.state
      pi == findPlayerIndex(st, playerId)
      lastCard == getTopCard(st)
  IN IF pi = -1 THEN FALSE
     ELSE LET hand == st.players[pi + 1].hand
              hasUndef == \E i \in 1..Len(hand) : hand[i] = Undefined
          IN IF st.stackedDrawAmount > 0 /\ config.enabledRules.stackDraw
             THEN hasUndef /\ Value(lastCard) \in {"draw2", "wild_draw4"}
             ELSE hasUndef

getValidMoves(eng, playerId) ==
  LET st == eng.state
      pi == findPlayerIndex(st, playerId)
      topCard == getTopCard(st)
      currentColor == engineCurrentColor(eng)
      StackTest(card) ==
        IF Value(topCard) = "draw2" THEN Value(card) = "draw2"
        ELSE IF Value(topCard) = "wild_draw4" THEN Value(card) = "wild_draw4"
        ELSE FALSE
      PlayTest(card) == isPlayable(card, topCard, currentColor)
  IN IF pi = -1 THEN <<>>
     ELSE IF st.stackedDrawAmount > 0 /\ config.enabledRules.stackDraw
          THEN SelectSeq(st.players[pi + 1].hand, StackTest)
          ELSE SelectSeq(st.players[pi + 1].hand, PlayTest)

canJumpIn(eng, playerId, cardId) ==
  LET st == eng.state
      pi == findPlayerIndex(st, playerId)
  IN IF ~config.enabledRules.jumpIn THEN FALSE
     ELSE IF pi = -1 THEN FALSE
     ELSE IF findIndex(st.players[pi + 1].hand, cardId) = -1 THEN FALSE
     ELSE isExactMatch(cardId, getTopCard(st))

Valid == [valid |-> TRUE, reason |-> "", threw |-> FALSE]
Invalid(reason) == [valid |-> FALSE, reason |-> reason, threw |-> FALSE]
ValidationThrew == [valid |-> FALSE, reason |-> "TypeError", threw |-> TRUE]

validatePlayCard(eng, action) ==
  LET st == eng.state
      pi == findPlayerIndex(st, action.playerId)
      hand == st.players[pi + 1].hand
      isCurrentPlayer == st.players[st.currentPlayerIndex + 1].id = action.playerId
  IN IF action.cardId = Undefined THEN Invalid("No card specified")
     ELSE IF findThrows(hand, action.cardId) THEN ValidationThrew
     ELSE IF findIndex(hand, action.cardId) = -1 THEN Invalid("Card not in hand")
     ELSE IF ~isCurrentPlayer
          THEN (IF canJumpIn(eng, action.playerId, action.cardId)
                THEN Valid ELSE Invalid("Not your turn"))
     ELSE IF getValidMovesThrows(eng, action.playerId) THEN ValidationThrew
     ELSE IF action.cardId \notin SeqToSet(getValidMoves(eng, action.playerId))
          THEN Invalid("Card cannot be played")
     ELSE IF Color(action.cardId) = "wild" /\ action.wildColor = NoColor
          THEN Invalid("Must select a color for wild card")
     ELSE Valid

validateAction(eng, action) ==
  LET st == eng.state
      pi == findPlayerIndex(st, action.playerId)
      player == st.players[pi + 1]
      isCurrentPlayer == st.players[st.currentPlayerIndex + 1].id = action.playerId
      ti == findPlayerIndex(st, action.targetPlayerId)
  IN IF pi = -1 THEN Invalid("Player not found")
     ELSE CASE action.type = "play_card" -> validatePlayCard(eng, action)
            [] action.type = "draw_card" ->
                 IF ~isCurrentPlayer THEN Invalid("Not your turn") ELSE Valid
            [] action.type = "call_uno" ->
                 IF Len(player.hand) # 2
                 THEN Invalid("Can only call UNO with 2 cards") ELSE Valid
            [] action.type = "catch_uno" ->
                 IF ti = -1 THEN Invalid("Target player not found")
                 ELSE IF Len(st.players[ti + 1].hand) # 1 \/ st.players[ti + 1].hasCalledUno
                      THEN Invalid("Cannot catch this player")
                 ELSE Valid
            [] action.type = "slap" ->
                 IF st.phase # "slap_race" THEN Invalid("No slap race active") ELSE Valid
            [] action.type = "select_color" ->
                 IF st.phase # "color_selection" THEN Invalid("Not selecting color") ELSE Valid
            [] OTHER -> Valid

\* advanceTurn without the wrap below seat 0
advanceTurn_noLowWrap(eng) ==
  LET st == eng.state
      numPlayers == Len(st.players)
      raw == st.currentPlayerIndex + st.direction
      nextIndex == IF raw >= numPlayers THEN 0 ELSE raw
  IN withState(
       emit(eng, [type |-> "turn_changed",
                  previousPlayer |-> st.players[st.currentPlayerIndex + 1].id,
                  currentPlayer |-> IF nextIndex < 0 THEN Undefined
                                    ELSE st.players[nextIndex + 1].id]),
       [st EXCEPT !.currentPlayerIndex = nextIndex])

advanceTurn(eng) ==
  LET st == eng.state
      numPlayers == Len(st.players)
      raw == st.currentPlayerIndex + st.direction
      wrappedLow == IF raw < 0 THEN numPlayers - 1 ELSE raw
      nextIndex == IF wrappedLow >= numPlayers THEN 0 ELSE wrappedLow
  IN withState(
       emit(eng, [type |-> "turn_changed",
                  previousPlayer |-> st.players[st.currentPlayerIndex + 1].id,
                  currentPlayer |-> st.players[nextIndex + 1].id]),
       [st EXCEPT !.currentPlayerIndex = nextIndex])

\* forceDrawCards shuffling the discard pile into the draw pile without taking
\* the shuffled cards off the discard pile
forceDrawCards_keepsDiscardPile(eng, playerId, count, rnd) ==
  IF eng.threw THEN eng
  ELSE
  LET st == eng.state
      playerIndex == findPlayerIndex(st, playerId)
      reshuffle == Len(st.drawPile) < count
      topCard == st.discardPile[Len(st.discardPile)]
      popped == JsSlice(st.discardPile, 0, Len(st.discardPile) - 1)
      drawPile == IF reshuffle THEN shuffleDeck(st.drawPile \o popped, rnd) ELSE st.drawPile
      discardPile == st.discardPile
      d == drawCards(drawPile, count)
  IN IF playerIndex = -1 THEN throw(eng)
     ELSE withState(eng,
            [st EXCEPT !.players[playerIndex + 1].hand = @ \o d.drawn,
                       !.drawPile = d.remaining,
                       !.discardPile = discardPile])

forceDrawCards(eng, playerId, count, rnd) ==
  IF eng.threw THEN eng
  ELSE
  LET st == eng.state
      playerIndex == findPlayerIndex(st, playerId)
      reshuffle == Len(st.drawPile) < count
      topCard == st.discardPile[Len(st.discardPile)]
      popped == JsSlice(st.discardPile, 0, Len(st.discardPile) - 1)
      drawPile == IF reshuffle THEN shuffleDeck(st.drawPile \o popped, rnd) ELSE st.drawPile
      discardPile == IF reshuffle THEN <<topCard>> ELSE st.discardPile
      d == drawCards(drawPile, count)
  IN IF playerIndex = -1 THEN throw(eng)
     ELSE withState(eng,
            [st EXCEPT !.players[playerIndex + 1].hand = @ \o d.drawn,
                       !.drawPile = d.remaining,
                       !.discardPile = discardPile])

\* the callback of nextPlayer.hand.some(...) reads c.value: a TypeError when an
\* undefined entry is reached before the first card of the same draw kind
canStackThrows(hand, card) ==
  \E i \in 1..Len(hand) :
     /\ hand[i] = Undefined
     /\ \A j \in 1..(i - 1) : hand[j] = Undefined \/ Value(hand[j]) # Value(card)

canStack(hand, card) ==
  \E i \in 1..Len(hand) :
     /\ hand[i] # Undefined
     /\ IF Value(card) = "draw2" THEN Value(hand[i]) = "draw2"
        ELSE IF Value(card) = "wild_draw4" THEN Value(hand[i]) = "wild_draw4"
        ELSE FALSE

\* applyDrawEffect handing the counterless player the amount of the last card
\* only
applyDrawEffect_lastCardOnly(eng, card, rnd) ==
  LET drawAmount == getDrawAmount(card)
      stacked == advanceTurn(withState(eng,
                   [eng.state EXCEPT !.stackedDrawAmount = @ + drawAmount]))
      stackNext == stacked.state.players[stacked.state.currentPlayerIndex + 1]
      forced == forceDrawCards(stacked, stackNext.id, drawAmount, rnd)
      advanced == advanceTurn(eng)
      nextPlayer == advanced.state.players[advanced.state.currentPlayerIndex + 1]
  IN IF config.enabledRules.stackDraw
     THEN IF canStackThrows(stackNext.hand, card) THEN throw(stacked)
          ELSE IF canStack(stackNext.hand, card) THEN stacked
          ELSE advanceTurn(withState(forced,
                 [forced.state EXCEPT !.stackedDrawAmount = 0]))
     ELSE advanceTurn(forceDrawCards(advanced, nextPlayer.id, drawAmount, rnd))

applyDrawEffect(eng, card, rnd) ==
  LET drawAmount == getDrawAmount(card)
      stacked == advanceTurn(withState(eng,
                   [eng.state EXCEPT !.stackedDrawAmount = @ + drawAmount]))
      stackNext == stacked.state.players[stacked.state.currentPlayerIndex + 1]
      forced == forceDrawCards(stacked, stackNext.id, stacked.state.stackedDrawAmount, rnd)
      advanced == advanceTurn(eng)
      nextPlayer == advanced.state.players[advanced.state.currentPlayerIndex + 1]
  IN IF config.enabledRules.stackDraw
     THEN IF canStackThrows(stackNext.hand, card) THEN throw(stacked)
          ELSE IF canStack(stackNext.hand, card) THEN stacked
          ELSE advanceTurn(withState(forced,
                 [forced.state EXCEPT !.stackedDrawAmount = 0]))
     ELSE advanceTurn(forceDrawCards(advanced, nextPlayer.id, drawAmount, rnd))

\* applyReverseEffect advancing once whatever the number of players
applyReverseEffect_noTwoPlayerCase(eng) ==
  advanceTurn(withState(eng, [eng.state EXCEPT !.direction = @ * (-1)]))

applyReverseEffect(eng) ==
  LET flipped == withState(eng, [eng.state EXCEPT !.direction = @ * (-1)])
  IN IF Len(flipped.state.players) = 2
     THEN advanceTurn(advanceTurn(flipped))
     ELSE advanceTurn(flipped)

applySpicyRules(eng, card, playerIndex) ==
  LET st == eng.state
      toggles == config.enabledRules.silence /\ Value(card) = "7"
      silenced == IF toggles
                  THEN emit(withState(eng, [st EXCEPT !.silenceMode = ~@]),
                            [type |-> "silence_toggled", active |-> ~st.silenceMode])
                  ELSE eng
      s1 == silenced.state
  IN IF config.enabledRules.customRule /\ Value(card) = "0"
     THEN withState(silenced,
            [s1 EXCEPT !.phase = "custom_rule_creation",
                       !.pendingAction = [NullPending EXCEPT
                           !.type = "create_rule",
                           !.targetPlayer = st.players[playerIndex + 1].id]])
     ELSE IF config.enabledRules.slap /\ Value(card) = "5"
     THEN emit(withState(silenced,
                 [s1 EXCEPT !.phase = "slap_race",
                            !.pendingAction = [NullPending EXCEPT !.type = "slap"]]),
               [type |-> "slap_race_started"])
     ELSE advanceTurn(silenced)

applyCardEffects(eng, card, playerIndex, rnd) ==
  IF isDrawCard(card) THEN applyDrawEffect(eng, card, rnd)
  ELSE IF isSkipCard(card) THEN advanceTurn(advanceTurn(eng))
  ELSE IF isReverseCard(card) THEN applyReverseEffect(eng)
  ELSE applySpicyRules(eng, card, playerIndex)

\* handlePlayCard looking at the hand only after the effects of the card
handlePlayCard_effectsBeforeWin(eng, action, rnd) ==
  LET st == eng.state
      playerIndex == findPlayerIndex(st, action.playerId)
      player == st.players[playerIndex + 1]
      cardIndex == findIndex(player.hand, action.cardId)
      card == IF cardIndex = -1 THEN Undefined ELSE player.hand[cardIndex + 1]
      newHand == JsSlice(player.hand, 0, cardIndex) \o JsSliceFrom(player.hand, cardIndex + 1)
      newSelected == IF Color(card) = "wild" /\ action.wildColor # NoColor
                     THEN action.wildColor ELSE NoColor
      newState == [st EXCEPT !.players[playerIndex + 1].hand = newHand,
                             !.players[playerIndex + 1].hasCalledUno = FALSE,
                             !.discardPile = Append(@, card)]
      played == [eng EXCEPT !.state = newState, !.selectedWildColor = newSelected]
      affected == applyCardEffects(played, card, playerIndex, rnd)
  IN IF findThrows(player.hand, action.cardId) THEN throw(eng)
     ELSE IF card = Undefined THEN throw(eng)
     ELSE IF Len(newHand) = 0
     THEN emit(withState(affected, [affected.state EXCEPT !.phase = "game_over",
                                                         !.winner = action.playerId]),
               [type |-> "game_over", winner |-> player.id])
     ELSE emit(affected,
               [type |-> "card_played", player |-> player.id, card |-> card])

handlePlayCard(eng, action, rnd) ==
  LET st == eng.state
      playerIndex == findPlayerIndex(st, action.playerId)
      player == st.players[playerIndex + 1]
      cardIndex == findIndex(player.hand, action.cardId)
      card == IF cardIndex = -1 THEN Undefined ELSE player.hand[cardIndex + 1]
      newHand == JsSlice(player.hand, 0, cardIndex) \o JsSliceFrom(player.hand, cardIndex + 1)
      newSelected == IF Color(card) = "wild" /\ action.wildColor # NoColor
                     THEN action.wildColor ELSE NoColor
      newState == [st EXCEPT !.players[playerIndex + 1].hand = newHand,
                             !.players[playerIndex + 1].hasCalledUno = FALSE,
                             !.discardPile = Append(@, card)]
      played == [eng EXCEPT !.state = newState, !.selectedWildColor = newSelected]
  IN IF findThrows(player.hand, action.cardId) THEN throw(eng)
     \* card is undefined: reading card.color is a TypeError
     ELSE IF card = Undefined THEN throw(eng)
     ELSE IF Len(newHand) = 0
     THEN emit(withState(played, [newState EXCEPT !.phase = "game_over",
                                                  !.winner = action.playerId]),
               [type |-> "game_over", winner |-> player.id])
     ELSE emit(applyCardEffects(played, card, playerIndex, rnd),
               [type |-> "card_played", player |-> player.id, card |-> card])

handleDrawCard(eng, action, rnd) ==
  LET st == eng.state
      drawCount == IF st.stackedDrawAmount > 0 THEN st.stackedDrawAmount ELSE 1
      drew == forceDrawCards(eng, action.playerId, drawCount, rnd)
      cleared == withState(drew, [drew.state EXCEPT !.stackedDrawAmount = 0])
  IN advanceTurn(emit(cleared,
       [type |-> "card_drawn", playerId |-> action.playerId, count |-> drawCount]))

handleCallUno(eng, action) ==
  LET st == eng.state
      playerIndex == findPlayerIndex(st, action.playerId)
  IN emit(withState(eng, [st EXCEPT !.players[playerIndex + 1].hasCalledUno = TRUE]),
          [type |-> "uno_called", playerId |-> action.playerId])

handleCatchUno(eng, action, rnd) ==
  IF action.targetPlayerId = Undefined THEN eng
  ELSE emit(forceDrawCards(eng, action.targetPlayerId, 2, rnd),
            [type |-> "uno_caught", targetPlayerId |-> action.targetPlayerId,
             catcherId |-> action.playerId])

handleSlap(eng, action) == eng

handleSelectColor(eng, action) ==
  LET chosen == IF action.wildColor # NoColor
                THEN [eng EXCEPT !.selectedWildColor = action.wildColor] ELSE eng
  IN advanceTurn(withState(chosen,
       [eng.state EXCEPT !.phase = "playing", !.pendingAction = NullPending]))

handleCreateCustomRule(eng, action) ==
  LET st == eng.state
      newRule == [type |-> action.customRule, createdBy |-> action.playerId]
  IN IF action.customRule = "none" THEN eng
     ELSE advanceTurn(emit(withState(eng,
            [st EXCEPT !.phase = "playing", !.pendingAction = NullPending,
                       !.customRules = Append(@, newRule)]),
            [type |-> "custom_rule_created", createdBy |-> action.playerId]))

handleReportSpeaking(eng, action, rnd) ==
  IF ~config.enabledRules.silence \/ ~eng.state.silenceMode THEN eng
  ELSE IF action.targetPlayerId = Undefined THEN eng
  ELSE emit(forceDrawCards(eng, action.targetPlayerId, 1, rnd),
            [type |-> "speaking_reported", reporterId |-> action.playerId,
             targetId |-> action.targetPlayerId])

\* handleRequestCard recording the request without entering card_request
handleRequestCard_keepsPhase(eng, action) ==
  LET st == eng.state
      ti == findPlayerIndex(st, action.targetPlayerId)
  IN IF ~config.enabledRules.offerCard THEN eng
     ELSE IF action.targetPlayerId = Undefined THEN eng
     ELSE IF action.playerId = action.targetPlayerId THEN eng
     ELSE IF ti = -1 THEN eng
     ELSE IF Len(st.players[ti + 1].hand) = 0 THEN eng
     ELSE emit(withState(eng,
            [st EXCEPT !.pendingAction = [NullPending EXCEPT
                           !.type = "card_request",
                           !.requesterId = action.playerId,
                           !.targetPlayer = action.targetPlayerId]]),
            [type |-> "card_requested", requesterId |-> action.playerId,
             targetId |-> action.targetPlayerId])

handleRequestCard(eng, action) ==
  LET st == eng.state
      ti == findPlayerIndex(st, action.targetPlayerId)
  IN IF ~config.enabledRules.offerCard THEN eng
     ELSE IF action.targetPlayerId = Undefined THEN eng
     ELSE IF action.playerId = action.targetPlayerId THEN eng
     ELSE IF ti = -1 THEN eng
     ELSE IF Len(st.players[ti + 1].hand) = 0 THEN eng
     ELSE emit(withState(eng,
            [st EXCEPT !.phase = "card_request",
                       !.pendingAction = [NullPending EXCEPT
                           !.type = "card_request",
                           !.requesterId = action.playerId,
                           !.targetPlayer = action.targetPlayerId]]),
            [type |-> "card_requested", requesterId |-> action.playerId,
             targetId |-> action.targetPlayerId])

\* handleDeclineRequest leaving the pending request in place
handleDeclineRequest_keepsPending(eng, action) ==
  LET st == eng.state
  IN IF st.phase # "card_request" \/ st.pendingAction.type = "null" THEN eng
     ELSE IF st.pendingAction.targetPlayer # action.playerId THEN eng
     ELSE withState(emit(eng,
            [type |-> "request_declined", requesterId |-> st.pendingAction.requesterId,
             declinerId |-> action.playerId]),
            [st EXCEPT !.phase = "playing"])

handleDeclineRequest(eng, action) ==
  LET st == eng.state
  IN IF st.phase # "card_request" \/ st.pendingAction.type = "null" THEN eng
     ELSE IF st.pendingAction.targetPlayer # action.playerId THEN eng
     ELSE withState(emit(eng,
            [type |-> "request_declined", requesterId |-> st.pendingAction.requesterId,
             declinerId |-> action.playerId]),
            [st EXCEPT !.phase = "playing", !.pendingAction = NullPending])

handleOfferCard(eng, action) ==
  LET st == eng.state
      requesterId == st.pendingAction.requesterId
  IN IF ~config.enabledRules.offerCard THEN eng
     ELSE IF action.cardId = Undefined THEN eng
     ELSE IF st.phase # "card_request" \/ st.pendingAction.type = "null" THEN eng
     ELSE IF st.pendingAction.targetPlayer # action.playerId THEN eng
     ELSE IF requesterId = Undefined THEN eng
     ELSE emit(withState(eng,
            [st EXCEPT !.phase = "offering_card",
                       !.pendingAction = [NullPending EXCEPT
                           !.type = "offer_decision",
                           !.offererId = action.playerId,
                           !.targetPlayer = requesterId,
                           !.offeredCardId = action.cardId,
                           !.requesterId = requesterId]]),
            [type |-> "card_offered", offererId |-> action.playerId,
             targetId |-> requesterId])

handleAcceptOffer(eng, action) ==
  LET st == eng.state
      pa == st.pendingAction
      offererIndex == findPlayerIndex(st, pa.offererId)
      targetIndex == findPlayerIndex(st, pa.targetPlayer)
      offerer == st.players[offererIndex + 1]
      target == st.players[targetIndex + 1]
      cardIndex == findIndex(offerer.hand, pa.offeredCardId)
      \* offerer.hand[-1] is undefined
      card == IF cardIndex = -1 THEN Undefined ELSE offerer.hand[cardIndex + 1]
      newOffererHand == JsSlice(offerer.hand, 0, cardIndex)
                        \o JsSliceFrom(offerer.hand, cardIndex + 1)
      newTargetHand == Append(target.hand, card)
      withOfferer == [st.players EXCEPT ![offererIndex + 1].hand = newOffererHand]
      newPlayers == [withOfferer EXCEPT ![targetIndex + 1].hand = newTargetHand]
  IN IF pa.type = "null" \/ pa.type # "offer_decision" THEN eng
     ELSE IF pa.offererId = Undefined \/ pa.offeredCardId = Undefined
             \/ pa.targetPlayer = Undefined THEN eng
     ELSE IF findThrows(offerer.hand, pa.offeredCardId) THEN throw(eng)
     ELSE withState(emit(eng,
            [type |-> "offer_responded", accepted |-> TRUE, card |-> card]),
            [st EXCEPT !.phase = "playing", !.pendingAction = NullPending,
                       !.players = newPlayers])

\* handleDeclineOffer passing the turn after the refusal
handleDeclineOffer_advancesTurn(eng, action) ==
  advanceTurn(withState(
    emit(eng, [type |-> "offer_responded", accepted |-> FALSE, card |-> Undefined]),
    [eng.state EXCEPT !.phase = "playing", !.pendingAction = NullPending]))

handleDeclineOffer(eng, action) ==
  withState(emit(eng, [type |-> "offer_responded", accepted |-> FALSE, card |-> Undefined]),
    [eng.state EXCEPT !.phase = "playing", !.pendingAction = NullPending])

handlePassTurn(eng, action) == advanceTurn(eng)

handleJumpIn(eng, action, rnd) ==
  LET st == eng.state
      playerIndex == findPlayerIndex(st, action.playerId)
  IN handlePlayCard(withState(eng, [st EXCEPT !.currentPlayerIndex = playerIndex]),
                    action, rnd)

applyAction(eng, action, rnd) ==
  CASE action.type = "play_card" -> handlePlayCard(eng, action, rnd)
    [] action.type = "draw_card" -> handleDrawCard(eng, action, rnd)
    [] action.type = "call_uno" -> handleCallUno(eng, action)
    [] action.type = "catch_uno" -> handleCatchUno(eng, action, rnd)
    [] action.type = "slap" -> handleSlap(eng, action)
    [] action.type = "select_color" -> handleSelectColor(eng, action)
    [] action.type = "create_custom_rule" -> handleCreateCustomRule(eng, action)
    [] action.type = "report_speaking" -> handleReportSpeaking(eng, action, rnd)
    [] action.type = "request_card" -> handleRequestCard(eng, action)
    [] action.type = "decline_request" -> handleDeclineRequest(eng, action)
    [] action.type = "offer_card" -> handleOfferCard(eng, action)
    [] action.type = "accept_offer" -> handleAcceptOffer(eng, action)
    [] action.type = "decline_offer" -> handleDeclineOffer(eng, action)
    [] action.type = "pass_turn" -> handlePassTurn(eng, action)
    [] action.type = "jump_in" -> handleJumpIn(eng, action, rnd)
    [] OTHER -> eng

\* dispatch recording the action as lastAction before it looks at the validation
dispatchResult_recordsRejected(eng, action, validation, applied) ==
  IF validation.threw THEN [eng |-> eng, outcome |-> "threw"]
  ELSE IF ~validation.valid
  THEN [eng |-> emit([eng EXCEPT !.state.lastAction = action],
                     [type |-> "action_rejected", action |-> action,
                      reason |-> validation.reason]),
        outcome |-> "rejected"]
  ELSE IF applied.threw
  THEN [eng |-> [applied EXCEPT !.state = eng.state, !.threw = FALSE],
        outcome |-> "threw"]
  ELSE [eng |-> emit([applied EXCEPT !.state.lastAction = action],
                     [type |-> "state_changed"]),
        outcome |-> "applied"]

\* the result of dispatch: the engine after the call and how the call ended;
\* applied is evaluated only when the validation let the action through
dispatchResult(eng, action, validation, applied) ==
  IF validation.threw THEN [eng |-> eng, outcome |-> "threw"]
  ELSE IF ~validation.valid
  THEN [eng |-> emit(eng, [type |-> "action_rejected", action |-> action,
                           reason |-> validation.reason]),
        outcome |-> "rejected"]
  ELSE IF applied.threw
  \* this.state is not assigned; what the handler did to selectedWildColor
  \* and the events it emitted before the TypeError stay
  THEN [eng |-> [applied EXCEPT !.state = eng.state, !.threw = FALSE],
        outcome |-> "threw"]
  ELSE [eng |-> emit([applied EXCEPT !.state.lastAction = action],
                     [type |-> "state_changed"]),
        outcome |-> "applied"]

dispatch(eng, action, rnd) ==
  dispatchResult(eng, action, validateAction(eng, action), applyAction(eng, action, rnd))

\* [...slapResults].sort((a, b) => a.timestamp - b.timestamp): a stable sort
RECURSIVE sortByTimestamp(_)
sortByTimestamp(results) ==
  IF Len(results) <= 1 THEN results
  ELSE LET init == sortByTimestamp(SubSeq(results, 1, Len(results) - 1))
           last == results[Len(results)]
           before == SelectSeq(init, LAMBDA r : r.timestamp <= last.timestamp)
           after == SelectSeq(init, LAMBDA r : r.timestamp > last.timestamp)
       IN before \o <<last>> \o after

\* resolveSlapRace taking the first entry of the sorted results as the loser
resolveSlapRace_fastestLoses(eng, slapResults, rnd) ==
  LET st == eng.state
      sorted == sortByTimestamp(slapResults)
      slappedPlayerIds == {sorted[i].playerId : i \in 1..Len(sorted)}
      nonSlappers == SelectSeq(st.players, LAMBDA p : p.id \notin slappedPlayerIds)
      loserId == IF Len(nonSlappers) > 0 THEN nonSlappers[1].id
                 ELSE sorted[1].playerId
      drew == forceDrawCards(eng, loserId, 1, rnd)
      ended == emit(drew, [type |-> "slap_race_ended", loserId |-> loserId])
      resumed == advanceTurn(withState(ended,
                   [ended.state EXCEPT !.phase = "playing", !.pendingAction = NullPending]))
  IN IF st.phase # "slap_race" THEN [eng |-> eng, outcome |-> "returned"]
     ELSE IF resumed.threw
     THEN [eng |-> [resumed EXCEPT !.state = eng.state, !.threw = FALSE],
           outcome |-> "threw"]
     ELSE [eng |-> emit(resumed, [type |-> "state_changed"]), outcome |-> "resolved"]

resolveSlapRace(eng, slapResults, rnd) ==
  LET st == eng.state
      sorted == sortByTimestamp(slapResults)
      slappedPlayerIds == {sorted[i].playerId : i \in 1..Len(sorted)}
      nonSlappers == SelectSeq(st.players, LAMBDA p : p.id \notin slappedPlayerIds)
      loserId == IF Len(nonSlappers) > 0 THEN nonSlappers[1].id
                 ELSE sorted[Len(sorted)].playerId
      drew == forceDrawCards(eng, loserId, 1, rnd)
      ended == emit(drew, [type |-> "slap_race_ended", loserId |-> loserId])
      resumed == advanceTurn(withState(ended,
                   [ended.state EXCEPT !.phase = "playing", !.pendingAction = NullPending]))
  IN IF st.phase # "slap_race" THEN [eng |-> eng, outcome |-> "returned"]
     ELSE IF resumed.threw
     THEN [eng |-> [resumed EXCEPT !.state = eng.state, !.threw = FALSE],
           outcome |-> "threw"]
     ELSE [eng |-> emit(resumed, [type |-> "state_changed"]), outcome |-> "resolved"]

INITIAL_HAND_SIZE == 7

makeState(hands, drawPile, discardPile) ==
  [phase |-> "playing",
   players |-> [i \in 1..Len(hands) |-> [newPlayer(i - 1) EXCEPT !.hand = hands[i]]],
   currentPlayerIndex |-> 0,
   direction |-> 1,
   drawPile |-> drawPile,
   discardPile |-> discardPile,
   pendingAction |-> NullPending,
   customRules |-> <<>>,
   silenceMode |-> FALSE,
   stackedDrawAmount |-> 0,
   winner |-> Undefined,
   lastAction |-> NullAction]

createInitialState(cfg, rnd) ==
  LET shuffled == shuffleDeck([i \in DeckIds |-> i], rnd)
      n == cfg.playerCount
      hands == [i \in 1..n |->
                  drawCards(JsSliceFrom(shuffled, (i - 1) * INITIAL_HAND_SIZE),
                            INITIAL_HAND_SIZE).drawn]
      deck == JsSliceFrom(shuffled, n * INITIAL_HAND_SIZE)
      m == {i \in 1..Len(deck) : Color(deck[i]) # "wild" /\ IsNumber(Value(deck[i]))}
      firstCardIndex == IF m = {} THEN 0 ELSE Min(m) - 1
      firstCard == deck[firstCardIndex + 1]
  IN makeState(hands,
               JsSlice(deck, 0, firstCardIndex) \o JsSliceFrom(deck, firstCardIndex + 1),
               <<firstCard>>)

(***************************************************************************)
(* Starting positions.  A behaviour starts either right after construction *)
(* (a fresh deal of one of the explored shuffles) or in one of a few       *)
(* positions of a game in progress: small hands, a discard pile with a     *)
(* history, and for the late positions an exhausted draw pile.             *)
(***************************************************************************)
\* the k-th card of the deck with this color and value
CardOf(color, value, k) ==
  LET ids == {c \in DeckIds : Color(c) = color /\ Value(c) = value}
  IN CHOOSE c \in ids : Cardinality({d \in ids : d < c}) = k - 1

\* the cards that each player of the late position holds
LateHand == (Cardinality(DeckIds) - 2) \div 2

Positions ==
  << \* two players, a 5 on top, an exact match and a wild in the hands
     [hands |-> << <<CardOf("red", "5", 2), CardOf("blue", "0", 1)>>,
                   <<CardOf("red", "draw2", 1), CardOf("wild", "wild", 1)>> >>,
      top |-> CardOf("red", "5", 1),
      draw |-> <<CardOf("yellow", "draw2", 1), CardOf("green", "3", 1),
                 CardOf("red", "9", 1), CardOf("blue", "4", 1)>>,
      drawCount |-> 40],
     \* three players, draw cards of both kinds, skip and reverse
     [hands |-> << <<CardOf("yellow", "reverse", 1), CardOf("yellow", "draw2", 1)>>,
                   <<CardOf("yellow", "7", 2), CardOf("yellow", "draw2", 2)>>,
                   <<CardOf("wild", "wild_draw4", 1), CardOf("yellow", "skip", 1)>> >>,
      top |-> CardOf("yellow", "7", 1),
      draw |-> <<CardOf("green", "1", 1), CardOf("green", "2", 1)>>,
      drawCount |-> 30],
     \* two players late in the game: the draw pile is exhausted
     [hands |-> << <<CardOf("green", "3", 2), CardOf("green", "draw2", 1)>>,
                   <<CardOf("blue", "3", 1), CardOf("green", "0", 1)>> >>,
      top |-> CardOf("green", "3", 1),
      draw |-> <<CardOf("blue", "8", 1)>>,
      drawCount |-> 1],
     \* four players, the first to move holds a skip and a reverse, the last
     \* a 5
     [hands |-> << <<CardOf("blue", "skip", 1), CardOf("blue", "reverse", 1)>>,
                   <<CardOf("blue", "2", 1), CardOf("red", "2", 1)>>,
                   <<CardOf("green", "6", 1), CardOf("red", "skip", 1)>>,
                   <<CardOf("blue", "9", 1), CardOf("yellow", "5", 1)>> >>,
      top |-> CardOf("blue", "6", 1),
      draw |-> <<CardOf("yellow", "4", 1)>>,
      drawCount |-> 50],
     \* two players, the first to move holds a reverse and a skip
     [hands |-> << <<CardOf("red", "reverse", 1), CardOf("red", "skip", 1)>>,
                   <<CardOf("red", "9", 1), CardOf("blue", "8", 1)>> >>,
      top |-> CardOf("red", "8", 1),
      draw |-> <<CardOf("green", "4", 1)>>,
      drawCount |-> 45],
     \* two players who drew until no card was left to draw: the draw pile is
     \* empty and one card lies under the discard top
     [hands |-> << [i \in 1..LateHand |-> i + 2],
                   [i \in 1..LateHand |-> i + 2 + LateHand] >>,
      top |-> CardOf("red", "1", 1),
      draw |-> <<>>,
      drawCount |-> 0],
     \* three players, the first to move holds a wild card as the last card
     [hands |-> << <<CardOf("wild", "wild", 2)>>,
                   <<CardOf("green", "9", 1), CardOf("wild", "wild_draw4", 2)>>,
                   <<CardOf("green", "5", 1), CardOf("yellow", "1", 1)>> >>,
      top |-> CardOf("green", "5", 2),
      draw |-> <<CardOf("blue", "7", 1), CardOf("red", "3", 1)>>,
      drawCount |-> 60] >>

\* the cards a position does not name, in deck order
PositionRest(pos) ==
  LET named == UNION {SeqToSet(pos.hands[i]) : i \in 1..Len(pos.hands)}
               \cup {pos.top} \cup SeqToSet(pos.draw)
  IN SelectSeq([i \in DeckIds |-> i], LAMBDA c : c \notin named)

\* the draw pile holds drawCount cards, the other cards lie under the discard top
positionState(pos) ==
  LET rest == PositionRest(pos)
      extra == pos.drawCount - Len(pos.draw)
  IN makeState(pos.hands,
               pos.draw \o SubSeq(rest, 1, extra),
               SubSeq(rest, extra + 1, Len(rest)) \o <<pos.top>>)

allRules(b) ==
  [silence |-> b, customRule |-> b, stackDraw |-> b, stackSkip |-> b,
   slap |-> b, jumpIn |-> b, unoCall |-> b, offerCard |-> b]

RuleSets == {allRules(TRUE), allRules(FALSE)}

\* A behaviour starts in a position, or in the state the engine is in after
\* it was sent the actions of an opening from that position
RECURSIVE runOpening(_, _)
runOpening(eng, opening) ==
  IF Len(opening) = 0 THEN eng
  ELSE runOpening(dispatch([eng EXCEPT !.events = <<>>], opening[1], 1).eng,
                  SubSeq(opening, 2, Len(opening)))

Simple(type, playerId) == Act(type, playerId, Undefined, Undefined, NoColor, "none")
Play(playerId, cardId) == Act("play_card", playerId, cardId, Undefined, NoColor, "none")
Request(playerId, targetId) ==
  Act("request_card", playerId, Undefined, targetId, NoColor, "none")
Offer(playerId, cardId) == Act("offer_card", playerId, cardId, Undefined, NoColor, "none")

Starts ==
  << [fresh |-> 2, pos |-> 0, opening |-> <<>>],
     [fresh |-> 0, pos |-> 1, opening |-> <<>>],
     [fresh |-> 0, pos |-> 2, opening |-> <<>>],
     [fresh |-> 0, pos |-> 3, opening |-> <<>>],
     \* a card request is pending
     [fresh |-> 0, pos |-> 1, opening |-> <<Request(1, 2)>>],
     \* an offer is pending
     [fresh |-> 0, pos |-> 1,
      opening |-> <<Request(1, 2), Offer(2, CardOf("red", "draw2", 1))>>],
     \* a draw-two was played
     [fresh |-> 0, pos |-> 2, opening |-> <<Play(1, CardOf("yellow", "draw2", 1))>>],
     \* a 5 was played
     [fresh |-> 0, pos |-> 1, opening |-> <<Play(1, CardOf("red", "5", 2))>>],
     \* a player declared UNO and played
     [fresh |-> 0, pos |-> 3,
      opening |-> <<Simple("call_uno", 1), Play(1, CardOf("green", "3", 2))>>],
     [fresh |-> 0, pos |-> 4, opening |-> <<>>],
     [fresh |-> 0, pos |-> 5, opening |-> <<>>] >>

startConfig(start, rules) ==
  [playerCount |-> IF start.fresh > 0 THEN start.fresh ELSE Len(Positions[start.pos].hands),
   enabledRules |-> rules]

startState(start, cfg) ==
  IF start.fresh > 0 THEN createInitialState(cfg, 1) ELSE positionState(Positions[start.pos])

InitOpened(eng) ==
  /\ state = eng.state
  /\ selectedWildColor = eng.selectedWildColor
  /\ events = eng.events

InitEngine(start, rules) ==
  /\ config = startConfig(start, rules)
  /\ InitOpened(runOpening([state |-> startState(start, config),
                            selectedWildColor |-> NoColor,
                            events |-> <<>>, threw |-> FALSE],
                           start.opening))
  /\ outcome = "none"
  /\ steps = 0

(***************************************************************************)
(* AIPlayer (src/unnamed/part_006).  Math.random is input: an operator that *)
(* draws a random number returns the set of values it can return.  The     *)
(* delay of a decision is not part of the model.  A hand with an undefined *)
(* entry makes the filter callback throw: no decision is returned.         *)
(***************************************************************************)
AIDifficulty == {"easy", "medium", "hard"}

pickWildColor == {"red", "blue", "green", "yellow"}

playCardDecision(id, card) ==
  IF Color(card) = "wild"
  THEN {[action |-> Act("play_card", id, card, Undefined, w, "none")] : w \in pickWildColor}
  ELSE {[action |-> Act("play_card", id, card, Undefined, NoColor, "none")]}

\* validMoves.sort(...)[0]: the sort is stable, the first card of the highest
\* priority is returned
basicStrategy(validMoves) ==
  LET num(card) == CHOOSE n \in 0..9 : NUMBERS[n + 1] = Value(card)
      priority(card) ==
        IF Value(card) = "wild_draw4" THEN 100
        ELSE IF Value(card) = "draw2" THEN 80
        ELSE IF Value(card) = "skip" THEN 60
        ELSE IF Value(card) = "reverse" THEN 50
        ELSE IF Value(card) = "wild" THEN 10
        ELSE IF IsNumber(Value(card)) THEN num(card) + 20
        ELSE 0
      best == Max({priority(validMoves[i]) : i \in 1..Len(validMoves)})
  IN validMoves[Min({i \in 1..Len(validMoves) : priority(validMoves[i]) = best})]

optimalStrategy(validMoves, hand, st, id) ==
  LET num(card) == CHOOSE n \in 0..9 : NUMBERS[n + 1] = Value(card)
      colorCount(card) == Cardinality({i \in 1..Len(hand) : Color(hand[i]) = Color(card)})
      nonWildMoves == {i \in 1..Len(validMoves) : Color(validMoves[i]) # "wild"}
      minOpponentCards ==
        Min({Len(st.players[i].hand) : i \in {j \in 1..Len(st.players) : st.players[j].id # id}})
      scoreCard(card) ==
        colorCount(card) * 5
        + (IF Color(card) = "wild" /\ nonWildMoves # {} THEN -50 ELSE 0)
        + (IF minOpponentCards <= 3
           THEN (IF Value(card) \in {"skip", "reverse"} THEN 30 ELSE 0)
                + (IF Value(card) = "draw2" THEN 40 ELSE 0)
                + (IF Value(card) = "wild_draw4" THEN 50 ELSE 0)
           ELSE 0)
        + (IF Value(card) = "5" THEN -10 ELSE 0)
        + (IF Value(card) = "7" THEN 5 ELSE 0)
        + (IF IsNumber(Value(card)) THEN num(card) ELSE 0)
      best == Max({scoreCard(validMoves[i]) : i \in 1..Len(validMoves)})
  IN validMoves[Min({i \in 1..Len(validMoves) : scoreCard(validMoves[i]) = best})]

pickBestCard(difficulty, validMoves, hand, st, id) ==
  IF difficulty = "easy" THEN SeqToSet(validMoves)
  ELSE IF difficulty = "medium" THEN {basicStrategy(validMoves)}
  ELSE {optimalStrategy(validMoves, hand, st, id)}

decidePlay(st, id, difficulty, hand) ==
  LET topCard == st.discardPile[Len(st.discardPile)]
      \* getCurrentColor is called without the selected color
      currentColor == getCurrentColor(topCard, NoColor)
      PlayTest(card) == isPlayable(card, topCard, currentColor)
      validMoves == SelectSeq(hand, PlayTest)
      IsCounter(card) == Value(card) = "draw2" \/ Value(card) = "wild_draw4"
      counters == SelectSeq(validMoves, IsCounter)
      draw == {[action |-> Act("draw_card", id, Undefined, Undefined, NoColor, "none")]}
  IN IF \E i \in 1..Len(hand) : hand[i] = Undefined THEN {}
     ELSE IF st.stackedDrawAmount > 0
          THEN IF Len(counters) = 0 THEN draw
               ELSE playCardDecision(id, counters[1])
     ELSE IF Len(validMoves) = 0 THEN draw
     ELSE UNION {playCardDecision(id, card) :
                   card \in pickBestCard(difficulty, validMoves, hand, st, id)}

decideSlap(id) == {[action |-> Act("slap", id, Undefined, Undefined, NoColor, "none")]}

decideCustomRule(id) ==
  {[action |-> Act("create_custom_rule", id, Undefined, Undefined, NoColor, rule)] :
     rule \in {"speech", "behavioral", "action", "penalty"}}

\* the set of decisions makeDecision can return; empty when it returns null
makeDecision(st, id, difficulty) ==
  LET pi == findPlayerIndex(st, id)
      isMyTurn == st.players[st.currentPlayerIndex + 1].id = id
  IN IF pi = -1 THEN {}
     ELSE IF ~isMyTurn /\ st.phase = "playing" THEN {}
     ELSE IF st.phase = "playing" THEN decidePlay(st, id, difficulty, st.players[pi + 1].hand)
     ELSE IF st.phase = "slap_race" THEN decideSlap(id)
     ELSE IF st.phase = "custom_rule_creation" THEN decideCustomRule(id)
     ELSE {}

(***************************************************************************)
(* Operations of the engine.                                               *)
(***************************************************************************)
PlayerIds == {state.players[i].id : i \in 1..Len(state.players)}
ActorInputs == PlayerIds \cup {GhostId}
TargetInputs == PlayerIds \cup {GhostId, Undefined}

HandOf(playerId) ==
  LET pi == findPlayerIndex(state, playerId)
  IN IF pi = -1 THEN {} ELSE SeqToSet(state.players[pi + 1].hand) \ {Undefined}

CardInputs(playerId) == HandOf(playerId) \cup {Undefined, BogusCardId}

\* a color accompanies the play of a wild card only; 'wild' is a CardColor too
WildColorInputs(cardId) ==
  IF cardId \in DeckIds /\ Color(cardId) = "wild"
  THEN {NoColor, "red", "blue", "wild"} ELSE {NoColor}

\* a shuffle can only happen when the draw pile is shorter than a draw
RndInputs ==
  IF Len(state.drawPile) < state.stackedDrawAmount + 4 THEN 1..NumShuffles ELSE {1}

\* lastAction, events and outcome are written and never read by the engine: an
\* operation that changes nothing else cannot open new behaviour, and the model
\* lets it use up the rest of the budget instead of exploring past it
Effective(before, after) ==
  \/ [before.state EXCEPT !.lastAction = NullAction]
       # [after.state EXCEPT !.lastAction = NullAction]
  \/ before.selectedWildColor # after.selectedWildColor

StepsAfter(before, after) ==
  IF Effective(before, after) THEN steps + 1 ELSE MaxSteps

Commit(r, action) ==
  /\ state' = r.eng.state
  /\ selectedWildColor' = r.eng.selectedWildColor
  /\ events' = r.eng.events
  /\ outcome' = r.outcome
  /\ steps' = StepsAfter(Engine, r.eng)
  /\ message' = action
  /\ UNCHANGED <<config, room, hookVars>>

Dispatch(action, rnd) ==
  /\ steps < MaxSteps
  /\ Commit(dispatch(Engine, action, rnd), action)

PlayCard ==
  \E p \in ActorInputs : \E c \in CardInputs(p) : \E w \in WildColorInputs(c) :
    \E rnd \in RndInputs :
      Dispatch(Act("play_card", p, c, Undefined, w, "none"), rnd)

JumpIn ==
  \E p \in ActorInputs : \E c \in CardInputs(p) : \E w \in WildColorInputs(c) :
    \E rnd \in RndInputs :
      Dispatch(Act("jump_in", p, c, Undefined, w, "none"), rnd)

DrawCard ==
  \E p \in ActorInputs, rnd \in RndInputs :
    Dispatch(Act("draw_card", p, Undefined, Undefined, NoColor, "none"), rnd)

CallUno ==
  \E p \in ActorInputs :
    Dispatch(Act("call_uno", p, Undefined, Undefined, NoColor, "none"), 1)

CatchUno ==
  \E p \in ActorInputs, t \in TargetInputs, rnd \in RndInputs :
    Dispatch(Act("catch_uno", p, Undefined, t, NoColor, "none"), rnd)

Slap ==
  \E p \in ActorInputs :
    Dispatch(Act("slap", p, Undefined, Undefined, NoColor, "none"), 1)

SelectColor ==
  \E p \in ActorInputs, w \in {NoColor, "red", "blue"} :
    Dispatch(Act("select_color", p, Undefined, Undefined, w, "none"), 1)

CreateCustomRule ==
  \E p \in ActorInputs, rule \in {"none", "speech"} :
    Dispatch(Act("create_custom_rule", p, Undefined, Undefined, NoColor, rule), 1)

ReportSpeaking ==
  \E p \in ActorInputs, t \in TargetInputs, rnd \in RndInputs :
    Dispatch(Act("report_speaking", p, Undefined, t, NoColor, "none"), rnd)

RequestCard ==
  \E p \in ActorInputs, t \in TargetInputs :
    Dispatch(Act("request_card", p, Undefined, t, NoColor, "none"), 1)

DeclineRequest ==
  \E p \in ActorInputs :
    Dispatch(Act("decline_request", p, Undefined, Undefined, NoColor, "none"), 1)

OfferCard ==
  \E p \in ActorInputs : \E c \in CardInputs(p) :
    Dispatch(Act("offer_card", p, c, Undefined, NoColor, "none"), 1)

AcceptOffer ==
  \E p \in ActorInputs :
    Dispatch(Act("accept_offer", p, Undefined, Undefined, NoColor, "none"), 1)

DeclineOffer ==
  \E p \in ActorInputs :
    Dispatch(Act("decline_offer", p, Undefined, Undefined, NoColor, "none"), 1)

PassTurn ==
  \E p \in ActorInputs :
    Dispatch(Act("pass_turn", p, Undefined, Undefined, NoColor, "none"), 1)

\* every player slapped at some timestamp or did not slap at all; the results
\* are handed over in player order
SlapResultInputs ==
  LET n == Len(state.players)
      results(f) == [i \in 1..Cardinality({j \in 1..n : f[j] > 0}) |->
                       LET j == CHOOSE j \in 1..n :
                                  f[j] > 0 /\ Cardinality({l \in 1..j : f[l] > 0}) = i
                       IN [playerId |-> state.players[j].id, timestamp |-> f[j]]]
  IN {results(f) : f \in [1..n -> 0..MaxTimestamp]}

ResolveSlapRace ==
  /\ steps < MaxSteps
  /\ \E slapResults \in SlapResultInputs, rnd \in RndInputs :
       Commit(resolveSlapRace(Engine, slapResults, rnd), NullAction)

\* no action is dispatched: message keeps the argument of the call
ResolveCall(slapResults) ==
  [type |-> "null", playerId |-> Undefined, cardId |-> Undefined,
   targetPlayerId |-> Undefined, wildColor |-> NoColor, customRule |-> "none",
   slapResults |-> slapResults]

\* resolveSlapRace with its argument kept for the properties that speak of it
ResolveSlapRaceCall ==
  /\ steps < MaxSteps
  /\ \E slapResults \in SlapResultInputs, rnd \in RndInputs :
       Commit(resolveSlapRace(Engine, slapResults, rnd), ResolveCall(slapResults))

Reset ==
  /\ steps < MaxSteps
  /\ \E rnd \in 1..NumShuffles : state' = createInitialState(config, rnd)
  /\ selectedWildColor' = NoColor
  /\ events' = <<[type |-> "state_changed"]>>
  /\ outcome' = "reset"
  /\ steps' = steps + 1
  /\ message' = NullAction
  /\ UNCHANGED <<config, room, hookVars>>

\* useAIPlayers: the decision of the scripted opponent whose turn it is, or of
\* any scripted opponent that slaps in a slap race, is dispatched; every player
\* may be a scripted opponent
AITurn ==
  \E p \in PlayerIds, difficulty \in AIDifficulty, rnd \in RndInputs :
    \E decision \in makeDecision(state, p, difficulty) :
      /\ state.phase # "game_over"
      /\ \/ state.players[state.currentPlayerIndex + 1].id = p
         \/ state.phase = "slap_race" /\ decision.action.type = "slap"
      /\ Dispatch(decision.action, rnd)

NextEngine ==
  \/ PlayCard \/ JumpIn \/ DrawCard \/ CallUno \/ CatchUno \/ Slap
  \/ SelectColor \/ CreateCustomRule \/ ReportSpeaking \/ RequestCard
  \/ DeclineRequest \/ OfferCard \/ AcceptOffer \/ DeclineOffer \/ PassTurn
  \/ ResolveSlapRace \/ Reset \/ AITurn

(***************************************************************************)
(* Server host (src/unnamed/part_007).  handleAction mutates the GameState *)
(* of the room in place; the operators return the GameState after the      *)
(* call.  The server keeps selectedWildColor in the GameState.             *)
(***************************************************************************)
srvGetTopCard(gs) == gs.discardPile[Len(gs.discardPile)]

canPlayCard(gs, card) ==
  LET topCard == srvGetTopCard(gs)
      effectiveColor == IF gs.selectedWildColor # NoColor
                        THEN gs.selectedWildColor ELSE Color(topCard)
  IN IF Color(card) = "wild" THEN TRUE
     ELSE IF Color(card) = effectiveColor THEN TRUE
     ELSE IF Value(card) = Value(topCard) THEN TRUE
     ELSE FALSE

srvGetValidMoves(gs, playerId) ==
  LET pi == findPlayerIndex(gs, playerId)
  IN IF pi = -1 THEN <<>>
     ELSE IF gs.stackedDrawAmount > 0
          THEN SelectSeq(gs.players[pi + 1].hand,
                         LAMBDA c : Value(c) = "draw2" \/ Value(c) = "wild_draw4")
          ELSE SelectSeq(gs.players[pi + 1].hand, LAMBDA c : canPlayCard(gs, c))

RECURSIVE nextPlayerFrom(_, _, _)
nextPlayerFrom(gs, next, iterations) ==
  IF iterations = 0 THEN next
  ELSE nextPlayerFrom(gs,
         (next + gs.direction + Len(gs.players)) % Len(gs.players), iterations - 1)

nextPlayer(gs, skip) == nextPlayerFrom(gs, gs.currentPlayerIndex, skip + 1)

\* drawOne with a reshuffle that leaves the top card in the shuffled pile too
drawOne_keepsTop(r, rnd) ==
  LET gs == r.state
      empty == Len(gs.drawPile) = 0
      topCard == gs.discardPile[Len(gs.discardPile)]
      drawPile == IF empty THEN shuffleDeck(gs.discardPile, rnd) ELSE gs.drawPile
      discardPile == IF empty THEN <<topCard>> ELSE gs.discardPile
  IN IF Len(drawPile) > 0
     THEN [state |-> [gs EXCEPT !.drawPile = JsSlice(drawPile, 0, Len(drawPile) - 1),
                                !.discardPile = discardPile],
           cards |-> Append(r.cards, drawPile[Len(drawPile)])]
     ELSE [state |-> [gs EXCEPT !.drawPile = drawPile, !.discardPile = discardPile],
           cards |-> r.cards]

\* one iteration of the loop of drawCards
drawOne(r, rnd) ==
  LET gs == r.state
      empty == Len(gs.drawPile) = 0
      topCard == gs.discardPile[Len(gs.discardPile)]
      drawPile == IF empty
                  THEN shuffleDeck(JsSlice(gs.discardPile, 0, Len(gs.discardPile) - 1), rnd)
                  ELSE gs.drawPile
      discardPile == IF empty THEN <<topCard>> ELSE gs.discardPile
  IN IF Len(drawPile) > 0
     THEN [state |-> [gs EXCEPT !.drawPile = JsSlice(drawPile, 0, Len(drawPile) - 1),
                                !.discardPile = discardPile],
           cards |-> Append(r.cards, drawPile[Len(drawPile)])]
     ELSE [state |-> [gs EXCEPT !.drawPile = drawPile, !.discardPile = discardPile],
           cards |-> r.cards]

RECURSIVE drawLoop(_, _, _)
drawLoop(r, count, rnd) ==
  IF count <= 0 THEN r ELSE drawLoop(drawOne(r, rnd), count - 1, rnd)

\* drawCards(state, count): the state after the call and the cards returned
srvDrawCards(gs, count, rnd) == drawLoop([state |-> gs, cards |-> <<>>], count, rnd)

\* const cards = drawCards(state, count); state.players[index].hand.push(...cards)
drawInto(gs, playerIndex, count, rnd) ==
  LET r == srvDrawCards(gs, count, rnd)
  IN [r.state EXCEPT !.players[playerIndex + 1].hand = @ \o r.cards]

srvDrawEffect(rules, gs, amount, rnd) ==
  LET stacked == [gs EXCEPT !.stackedDrawAmount = @ + amount]
      drew == drawInto(gs, nextPlayer(gs, 0), amount, rnd)
      skipped == [drew EXCEPT !.currentPlayerIndex = nextPlayer(drew, 1)]
      after == IF rules.stackDraw THEN stacked ELSE skipped
  IN [after EXCEPT !.currentPlayerIndex = nextPlayer(after, 0)]

srvApplyCardEffects(rules, gs, card, playerIndex, rnd) ==
  LET advance == [gs EXCEPT !.currentPlayerIndex = nextPlayer(gs, 0)]
      flipped == [gs EXCEPT !.direction = @ * (-1)]
  IN CASE Value(card) = "skip" -> [gs EXCEPT !.currentPlayerIndex = nextPlayer(gs, 1)]
       [] Value(card) = "reverse" ->
            IF Len(gs.players) = 2
            THEN [gs EXCEPT !.currentPlayerIndex = nextPlayer(gs, 1)]
            ELSE [flipped EXCEPT !.currentPlayerIndex = nextPlayer(flipped, 0)]
       [] Value(card) = "draw2" -> srvDrawEffect(rules, gs, 2, rnd)
       [] Value(card) = "wild_draw4" -> srvDrawEffect(rules, gs, 4, rnd)
       [] Value(card) = "7" ->
            IF rules.silence
            THEN [advance EXCEPT !.silenceMode = ~@]
            ELSE advance
       [] Value(card) = "0" ->
            IF rules.customRule
            THEN [gs EXCEPT !.phase = "custom_rule_creation"]
            ELSE advance
       [] Value(card) = "5" ->
            IF rules.slap
            THEN [gs EXCEPT !.phase = "slap_race",
                            !.pendingAction = [NullPending EXCEPT !.type = "slap"]]
            ELSE advance
       [] OTHER -> advance

srvPlayCard(rules, gs, action, rnd) ==
  LET playerIndex == findPlayerIndex(gs, action.playerId)
      player == gs.players[playerIndex + 1]
      cardIndex == findIndex(player.hand, action.cardId)
      card == player.hand[cardIndex + 1]
      topCard == srvGetTopCard(gs)
      newHand == JsSlice(player.hand, 0, cardIndex) \o JsSliceFrom(player.hand, cardIndex + 1)
      played == [gs EXCEPT !.players[playerIndex + 1].hand = newHand,
                           !.discardPile = Append(@, card)]
      jumped == [played EXCEPT !.currentPlayerIndex = playerIndex,
                               !.selectedWildColor = NoColor]
      colored == [played EXCEPT !.selectedWildColor =
                    IF Color(card) = "wild" THEN action.wildColor ELSE NoColor]
  IN IF cardIndex = -1 THEN gs
     ELSE IF gs.currentPlayerIndex # playerIndex
     THEN IF rules.jumpIn /\ Color(card) = Color(topCard) /\ Value(card) = Value(topCard)
          THEN IF Len(newHand) = 0
               THEN [jumped EXCEPT !.phase = "game_over", !.winner = action.playerId]
               ELSE [jumped EXCEPT !.currentPlayerIndex = nextPlayer(jumped, 0)]
          ELSE gs
     ELSE IF ~canPlayCard(gs, card) /\ gs.stackedDrawAmount = 0 THEN gs
     ELSE IF Color(card) = "wild" /\ action.wildColor = NoColor
     THEN [colored EXCEPT !.phase = "color_selection"]
     ELSE IF Len(newHand) = 0
     THEN [colored EXCEPT !.phase = "game_over", !.winner = action.playerId]
     ELSE srvApplyCardEffects(rules, colored, card, playerIndex, rnd)

srvDrawCard(gs, action, rnd) ==
  LET playerIndex == findPlayerIndex(gs, action.playerId)
      amount == IF gs.stackedDrawAmount > 0 THEN gs.stackedDrawAmount ELSE 1
      drew == drawInto(gs, playerIndex, amount, rnd)
  IN IF gs.currentPlayerIndex # playerIndex THEN gs
     ELSE [drew EXCEPT !.stackedDrawAmount = 0,
                       !.currentPlayerIndex = nextPlayer(drew, 0),
                       !.players[playerIndex + 1].hasCalledUno = FALSE]

srvSelectColor(gs, action) ==
  IF gs.phase # "color_selection" THEN gs
  ELSE [gs EXCEPT !.selectedWildColor = action.wildColor,
                  !.phase = "playing",
                  !.currentPlayerIndex = nextPlayer(gs, 0)]

srvCallUno(gs, action) ==
  LET playerIndex == findPlayerIndex(gs, action.playerId)
  IN IF Len(gs.players[playerIndex + 1].hand) <= 2
     THEN [gs EXCEPT !.players[playerIndex + 1].hasCalledUno = TRUE]
     ELSE gs

srvCatchUno(gs, action, rnd) ==
  LET ti == findPlayerIndex(gs, action.targetPlayerId)
  IN IF ti # -1 /\ Len(gs.players[ti + 1].hand) = 1 /\ ~gs.players[ti + 1].hasCalledUno
     THEN drawInto(gs, ti, 2, rnd)
     ELSE gs

srvSlap(gs, action) ==
  IF gs.phase # "slap_race" THEN gs
  ELSE [gs EXCEPT !.phase = "playing", !.pendingAction = NullPending]

srvCreateCustomRule(gs, action) ==
  IF gs.phase # "custom_rule_creation" THEN gs
  ELSE [gs EXCEPT !.customRules = Append(@, [type |-> action.customRule,
                                             createdBy |-> action.playerId]),
                  !.phase = "playing",
                  !.currentPlayerIndex = nextPlayer(gs, 0)]

srvReportSpeaking(gs, action, rnd) ==
  LET ti == findPlayerIndex(gs, action.targetPlayerId)
  IN IF ~gs.silenceMode THEN gs
     ELSE IF ti # -1 THEN drawInto(gs, ti, 1, rnd)
     ELSE gs

srvRequestCard(rules, gs, action) ==
  LET ti == findPlayerIndex(gs, action.targetPlayerId)
  IN IF ~rules.offerCard THEN gs
     ELSE IF ti = -1 THEN gs
     ELSE IF Len(gs.players[ti + 1].hand) = 0 THEN gs
     ELSE [gs EXCEPT !.phase = "card_request",
                     !.pendingAction = [NullPending EXCEPT
                         !.type = "card_request",
                         !.requesterId = action.playerId,
                         !.targetPlayer = action.targetPlayerId]]

srvDeclineRequest(gs, action) ==
  IF gs.phase # "card_request" THEN gs
  ELSE IF gs.pendingAction.targetPlayer # action.playerId THEN gs
  ELSE [gs EXCEPT !.phase = "playing", !.pendingAction = NullPending]

srvOfferCard(gs, action) ==
  IF gs.phase # "card_request" THEN gs
  ELSE IF gs.pendingAction.targetPlayer # action.playerId THEN gs
  ELSE [gs EXCEPT !.phase = "offering_card",
                  !.pendingAction = [NullPending EXCEPT
                      !.type = "offer_decision",
                      !.offererId = action.playerId,
                      !.targetPlayer = gs.pendingAction.requesterId,
                      !.offeredCardId = action.cardId,
                      !.requesterId = gs.pendingAction.requesterId]]

srvAcceptOffer(gs, action) ==
  LET pa == gs.pendingAction
      oi == findPlayerIndex(gs, pa.offererId)
      ti == findPlayerIndex(gs, pa.targetPlayer)
      cardIndex == findIndex(gs.players[oi + 1].hand, pa.offeredCardId)
      card == gs.players[oi + 1].hand[cardIndex + 1]
      spliced == [gs EXCEPT !.players[oi + 1].hand =
                    JsSlice(@, 0, cardIndex) \o JsSliceFrom(@, cardIndex + 1)]
  IN IF gs.phase # "offering_card" THEN gs
     ELSE IF pa.type = "null" THEN gs
     ELSE IF oi = -1 \/ ti = -1 THEN gs
     ELSE IF cardIndex = -1 THEN gs
     ELSE [spliced EXCEPT !.players[ti + 1].hand = Append(@, card),
                          !.phase = "playing",
                          !.pendingAction = NullPending]

srvDeclineOffer(gs, action) ==
  IF gs.phase # "offering_card" THEN gs
  ELSE [gs EXCEPT !.phase = "playing", !.pendingAction = NullPending]

\* create_custom_rule reads action.customRule.text: a TypeError without customRule
handleActionThrows(gs, action) ==
  /\ gs.phase # "game_over"
  /\ findPlayerIndex(gs, action.playerId) # -1
  /\ action.type = "create_custom_rule"
  /\ gs.phase = "custom_rule_creation"
  /\ action.customRule = "none"

handleAction(rm, action, rnd) ==
  LET gs == rm.gameState
      rules == rm.config.enabledRules
      after ==
        CASE action.type = "play_card" -> srvPlayCard(rules, gs, action, rnd)
          [] action.type = "draw_card" -> srvDrawCard(gs, action, rnd)
          [] action.type = "select_color" -> srvSelectColor(gs, action)
          [] action.type = "call_uno" -> srvCallUno(gs, action)
          [] action.type = "catch_uno" -> srvCatchUno(gs, action, rnd)
          [] action.type = "slap" -> srvSlap(gs, action)
          [] action.type = "create_custom_rule" -> srvCreateCustomRule(gs, action)
          [] action.type = "report_speaking" -> srvReportSpeaking(gs, action, rnd)
          [] action.type = "request_card" -> srvRequestCard(rules, gs, action)
          [] action.type = "decline_request" -> srvDeclineRequest(gs, action)
          [] action.type = "offer_card" -> srvOfferCard(gs, action)
          [] action.type = "accept_offer" -> srvAcceptOffer(gs, action)
          [] action.type = "decline_offer" -> srvDeclineOffer(gs, action)
          [] OTHER -> gs
  IN IF gs.phase = "game_over" THEN rm
     ELSE IF findPlayerIndex(gs, action.playerId) = -1 THEN rm
     ELSE IF handleActionThrows(gs, action) THEN rm
     ELSE [rm EXCEPT !.gameState = after]

\* initializeGame(room): the deck is dealt as by the client
initializeGame(n, rnd) ==
  LET shuffled == shuffleDeck([i \in DeckIds |-> i], rnd)
      hands == [i \in 1..n |-> SubSeq(shuffled, (i - 1) * 7 + 1, i * 7)]
      deck == JsSliceFrom(shuffled, n * 7)
      m == {i \in 1..Len(deck) : Color(deck[i]) # "wild" /\ IsNumber(Value(deck[i]))}
      startCardIndex == IF m = {} THEN 0 ELSE Min(m) - 1
  IN [phase |-> "playing",
      players |-> [i \in 1..n |-> [newPlayer(i - 1) EXCEPT !.hand = hands[i]]],
      currentPlayerIndex |-> 0,
      direction |-> 1,
      drawPile |-> JsSlice(deck, 0, startCardIndex) \o JsSliceFrom(deck, startCardIndex + 1),
      discardPile |-> <<deck[startCardIndex + 1]>>,
      pendingAction |-> NullPending,
      customRules |-> <<>>,
      silenceMode |-> FALSE,
      stackedDrawAmount |-> 0,
      winner |-> Undefined,
      selectedWildColor |-> NoColor]

\* the server's GameState of a position: the same hands and piles
srvPositionState(pos) ==
  LET st == positionState(pos)
  IN [initializeGame(Len(pos.hands), 1) EXCEPT
        !.players = st.players, !.drawPile = st.drawPile, !.discardPile = st.discardPile]

RECURSIVE srvRunOpening(_, _)
srvRunOpening(rm, opening) ==
  IF Len(opening) = 0 THEN rm
  ELSE srvRunOpening(handleAction(rm, opening[1], 1), SubSeq(opening, 2, Len(opening)))

InitRoom(start, rules) ==
  /\ room = srvRunOpening(
              [config |-> [enabledRules |-> rules],
               \* every player of the game has joined the room through a socket
               players |-> 1..(IF start.fresh > 0 THEN start.fresh
                               ELSE Len(Positions[start.pos].hands)),
               gameState |-> IF start.fresh > 0 THEN initializeGame(start.fresh, 1)
                             ELSE srvPositionState(Positions[start.pos])],
              start.opening)
  /\ message = NullAction

(***************************************************************************)
(* EventBus (src/client/src/engine/EventBus.ts).  listeners is the Map from *)
(* event to Set of handlers: a function whose domain is the set of keys    *)
(* and whose values list the handlers in insertion order, as a Set         *)
(* iterates.  A handler either returns or throws.                          *)
(***************************************************************************)
BusEvents == {"state_changed", "card_played"}
Handlers == {"h1", "h2", "h3"}
\* the handlers that throw when they are called
Throwing == {"h2"}
Payloads == {"a", "b"}

NoListeners == [event \in {} |-> <<>>]
NoCall == [op |-> "none", event |-> "none", handler |-> "none", payload |-> "none"]

EventBus_on(listeners, event, handler) ==
  LET withKey == IF event \in DOMAIN listeners THEN listeners
                 ELSE [e \in DOMAIN listeners \cup {event} |->
                         IF e = event THEN <<>> ELSE listeners[e]]
  IN [withKey EXCEPT ![event] =
        IF \E i \in 1..Len(@) : @[i] = handler THEN @ ELSE Append(@, handler)]

EventBus_off(listeners, event, handler) ==
  IF event \in DOMAIN listeners
  THEN [listeners EXCEPT ![event] = SelectSeq(@, LAMBDA h : h # handler)]
  ELSE listeners

\* emit without the try/catch around the call of a handler
EventBus_emit_noCatch(listeners, event, payload) ==
  LET handlers == IF event \in DOMAIN listeners THEN listeners[event] ELSE <<>>
      first == {i \in 1..Len(handlers) : handlers[i] \in Throwing}
      last == IF first = {} THEN Len(handlers) ELSE Min(first)
  IN [calls |-> [i \in 1..last |-> [handler |-> handlers[i], payload |-> payload]],
      threw |-> first # {}]

\* the calls that emit makes, in order, and whether emit throws
RECURSIVE EventBus_emit(_, _, _)
EventBus_emit(listeners, event, payload) ==
  IF event \notin DOMAIN listeners \/ Len(listeners[event]) = 0
  THEN [calls |-> <<>>, threw |-> FALSE]
  ELSE LET handlers == listeners[event]
           rest == EventBus_emit([listeners EXCEPT ![event] = Tail(handlers)],
                                 event, payload)
       IN \* an error thrown by the handler is caught and logged
          [calls |-> <<[handler |-> Head(handlers), payload |-> payload]>> \o rest.calls,
           threw |-> rest.threw]

EventBus_removeAllListeners(listeners, event) ==
  IF event # "none"
  THEN [e \in DOMAIN listeners \ {event} |-> listeners[e]]
  ELSE NoListeners

InitBus ==
  bus = [listeners |-> NoListeners, unsubscribe |-> <<>>, calls |-> <<>>,
         threw |-> FALSE, last |-> NoCall]

\* the bus after a call of one of its methods
BusCall(listeners, unsubscribe, result, last) ==
  [listeners |-> listeners, unsubscribe |-> unsubscribe,
   calls |-> result.calls, threw |-> result.threw, last |-> last]

NoResult == [calls |-> <<>>, threw |-> FALSE]

\* on(event, handler): the caller keeps the unsubscribe function it returns
On ==
  \E event \in BusEvents, handler \in Handlers :
    /\ bus' = BusCall(EventBus_on(bus.listeners, event, handler), <<event, handler>>,
                      NoResult,
                      [NoCall EXCEPT !.op = "on", !.event = event, !.handler = handler])
    /\ UNCHANGED gameVars

Off ==
  \E event \in BusEvents, handler \in Handlers :
    /\ bus' = BusCall(EventBus_off(bus.listeners, event, handler), bus.unsubscribe,
                      NoResult,
                      [NoCall EXCEPT !.op = "off", !.event = event, !.handler = handler])
    /\ UNCHANGED gameVars

\* the unsubscribe function that the last on returned is called
Unsubscribe ==
  /\ bus.unsubscribe # <<>>
  /\ bus' = BusCall(EventBus_off(bus.listeners, bus.unsubscribe[1], bus.unsubscribe[2]),
                    bus.unsubscribe, NoResult,
                    [NoCall EXCEPT !.op = "unsubscribe", !.event = bus.unsubscribe[1],
                                   !.handler = bus.unsubscribe[2]])
  /\ UNCHANGED gameVars

Emit ==
  \E event \in BusEvents, payload \in Payloads :
    /\ bus' = BusCall(bus.listeners, bus.unsubscribe,
                      EventBus_emit(bus.listeners, event, payload),
                      [NoCall EXCEPT !.op = "emit", !.event = event, !.payload = payload])
    /\ UNCHANGED gameVars

Clear ==
  /\ bus' = BusCall(NoListeners, bus.unsubscribe, NoResult, [NoCall EXCEPT !.op = "clear"])
  /\ UNCHANGED gameVars

RemoveAllListeners ==
  \E event \in BusEvents \cup {"none"} :
    /\ bus' = BusCall(EventBus_removeAllListeners(bus.listeners, event), bus.unsubscribe,
                      NoResult,
                      [NoCall EXCEPT !.op = "removeAllListeners", !.event = event])
    /\ UNCHANGED gameVars

NextBus == On \/ Off \/ Unsubscribe \/ Emit \/ Clear \/ RemoveAllListeners

\* useAIPlayers has no timeout pending
NoTimeout == [kind |-> "none", action |-> NullAction, phase |-> "none", turn |-> -1]

InitHook == timeouts = [pending |-> {}, fired |-> NoTimeout]

Init ==
  \E rules \in RuleSets, k \in 1..Len(Starts) :
    /\ InitEngine(Starts[k], rules)
    /\ InitRoom(Starts[k], rules)
    /\ InitHook
    /\ InitBus

\* the game after the players drew every card of the draw pile
LateStart == [fresh |-> 0, pos |-> 6, opening |-> <<>>]

\* the games in which a slap race starts or has started
SlapStarts ==
  << \* a 5 was played
     [fresh |-> 0, pos |-> 1, opening |-> <<Play(1, CardOf("red", "5", 2))>>],
     \* a 5 was played and the first player slapped
     [fresh |-> 0, pos |-> 1,
      opening |-> <<Play(1, CardOf("red", "5", 2)), Simple("slap", 1)>>],
     \* four players, one of them holds a 5
     [fresh |-> 0, pos |-> 4, opening |-> <<>>] >>

InitSlap ==
  \E rules \in RuleSets, k \in 1..Len(SlapStarts) :
    /\ InitEngine(SlapStarts[k], rules)
    /\ InitRoom(SlapStarts[k], rules)
    /\ InitHook
    /\ InitBus

\* the game in which the player to move holds one card, a wild card
LastWildStart == [fresh |-> 0, pos |-> 7, opening |-> <<>>]

InitLastWild ==
  \E rules \in RuleSets :
    /\ InitEngine(LastWildStart, rules)
    /\ InitRoom(LastWildStart, rules)
    /\ InitHook
    /\ InitBus

InitLate ==
  \E rules \in RuleSets :
    /\ InitEngine(LateStart, rules)
    /\ InitRoom(LateStart, rules)
    /\ InitHook
    /\ InitBus

(***************************************************************************)
(* Operations of the server: one game_action message is handled at a time. *)
(***************************************************************************)
SrvPlayerIds == {room.gameState.players[i].id : i \in 1..Len(room.gameState.players)}
SrvActorInputs == SrvPlayerIds \cup {GhostId}
SrvTargetInputs == SrvPlayerIds \cup {GhostId, Undefined}

SrvCardInputs(playerId) ==
  LET pi == findPlayerIndex(room.gameState, playerId)
  IN (IF pi = -1 THEN {} ELSE SeqToSet(room.gameState.players[pi + 1].hand))
     \cup {Undefined, BogusCardId}

SrvRndInputs ==
  IF Len(room.gameState.drawPile) < room.gameState.stackedDrawAmount + 4
  THEN 1..NumShuffles ELSE {1}

\* the placeholder { id: 'hidden', color: 'wild', value: 'wild' }: an id that no
\* card of the deck carries
HiddenCard == 110

\* getStateForPlayer without the line that empties the draw pile
getStateForPlayer_sendsDrawPile(gs, playerId) ==
  [gs EXCEPT !.players =
     [i \in 1..Len(gs.players) |->
        [gs.players[i] EXCEPT !.hand =
           IF gs.players[i].id = playerId THEN @
           ELSE [k \in 1..Len(@) |-> HiddenCard]]]]

getStateForPlayer(gs, playerId) ==
  [gs EXCEPT !.players =
               [i \in 1..Len(gs.players) |->
                  [gs.players[i] EXCEPT !.hand =
                     IF gs.players[i].id = playerId THEN @
                     ELSE [k \in 1..Len(@) |-> HiddenCard]]],
             !.drawPile = <<>>]

\* the game_state_updated messages that the game_action handler emits after
\* handleAction: one snapshot per player, a function of the GameState
gameStateUpdated == [p \in room.players |-> getStateForPlayer(room.gameState, p)]

\* handleDisconnect for the socket of playerId: the player leaves room.players
\* and, a game being in progress, is marked as disconnected in the GameState
\* (a room left empty is deleted: no socket leads to it any more)
handleDisconnect_dropsHand(rm, playerId) ==
  LET gs == rm.gameState
      gi == findPlayerIndex(gs, playerId)
  IN IF playerId \notin rm.players THEN rm
     ELSE IF gi = -1 THEN [rm EXCEPT !.players = @ \ {playerId}]
     ELSE [rm EXCEPT !.players = @ \ {playerId},
                     !.gameState.players[gi + 1].isConnected = FALSE,
                     !.gameState.players[gi + 1].hand = <<>>]

handleDisconnect(rm, playerId) ==
  LET gs == rm.gameState
      gi == findPlayerIndex(gs, playerId)
  IN IF playerId \notin rm.players THEN rm
     ELSE IF gi = -1 THEN [rm EXCEPT !.players = @ \ {playerId}]
     ELSE [rm EXCEPT !.players = @ \ {playerId},
                     !.gameState.players[gi + 1].isConnected = FALSE]

\* a socket of the room disconnects or sends leave_room
Disconnect ==
  /\ steps < MaxSteps
  /\ \E p \in room.players : room' = handleDisconnect(room, p)
  /\ message' = NullAction
  /\ outcome' = "disconnected"
  /\ steps' = steps + 1
  /\ UNCHANGED <<state, selectedWildColor, config, events, hookVars>>

\* the game_action handler finds the room through the socket of the sender
GameAction(action, rnd) ==
  /\ steps < MaxSteps
  /\ room.players # {}
  /\ room' = handleAction(room, action, rnd)
  /\ message' = action
  /\ outcome' = IF handleActionThrows(room.gameState, action) THEN "threw" ELSE "handled"
  /\ steps' = IF room' # room THEN steps + 1 ELSE MaxSteps
  /\ UNCHANGED <<state, selectedWildColor, config, events, hookVars>>

SrvPlayCard ==
  \E p \in SrvActorInputs : \E c \in SrvCardInputs(p) : \E w \in WildColorInputs(c) :
    \E rnd \in SrvRndInputs :
      GameAction(Act("play_card", p, c, Undefined, w, "none"), rnd)

SrvDrawCard ==
  \E p \in SrvActorInputs, rnd \in SrvRndInputs : GameAction(Simple("draw_card", p), rnd)

SrvSelectColor ==
  \E p \in SrvActorInputs, w \in {NoColor, "red", "blue"} :
    GameAction(Act("select_color", p, Undefined, Undefined, w, "none"), 1)

SrvCallUno == \E p \in SrvActorInputs : GameAction(Simple("call_uno", p), 1)

SrvCatchUno ==
  \E p \in SrvActorInputs, t \in SrvTargetInputs, rnd \in SrvRndInputs :
    GameAction(Act("catch_uno", p, Undefined, t, NoColor, "none"), rnd)

SrvSlap == \E p \in SrvActorInputs : GameAction(Simple("slap", p), 1)

SrvCreateCustomRule ==
  \E p \in SrvActorInputs, rule \in {"none", "speech"} :
    GameAction(Act("create_custom_rule", p, Undefined, Undefined, NoColor, rule), 1)

SrvReportSpeaking ==
  \E p \in SrvActorInputs, t \in SrvTargetInputs, rnd \in SrvRndInputs :
    GameAction(Act("report_speaking", p, Undefined, t, NoColor, "none"), rnd)

SrvRequestCard ==
  \E p \in SrvActorInputs, t \in SrvTargetInputs : GameAction(Request(p, t), 1)

SrvDeclineRequest == \E p \in SrvActorInputs : GameAction(Simple("decline_request", p), 1)

SrvOfferCard ==
  \E p \in SrvActorInputs : \E c \in SrvCardInputs(p) : GameAction(Offer(p, c), 1)

SrvAcceptOffer == \E p \in SrvActorInputs : GameAction(Simple("accept_offer", p), 1)

SrvDeclineOffer == \E p \in SrvActorInputs : GameAction(Simple("decline_offer", p), 1)

\* action types handleAction has no case for
SrvOtherAction ==
  \E p \in SrvActorInputs, type \in {"pass_turn", "jump_in"} : GameAction(Simple(type, p), 1)

NextServer ==
  \/ SrvPlayCard \/ SrvDrawCard \/ SrvSelectColor \/ SrvCallUno \/ SrvCatchUno
  \/ SrvSlap \/ SrvCreateCustomRule \/ SrvReportSpeaking \/ SrvRequestCard
  \/ SrvDeclineRequest \/ SrvOfferCard \/ SrvAcceptOffer \/ SrvDeclineOffer
  \/ SrvOtherAction \/ Disconnect

Spec == Init /\ [][NextEngine]_vars

SpecServer == Init /\ [][NextServer]_vars

\* the operations of the engine that draw cards or pass the turn, late in the
\* game
NextLate == PlayCard \/ DrawCard \/ CatchUno \/ ReportSpeaking \/ PassTurn

SpecLate == InitLate /\ [][NextLate]_vars

\* the operations of the engine and of the host that draw for the current
\* player, late in the game
NextLateBoth == PlayCard \/ DrawCard \/ SrvPlayCard \/ SrvDrawCard

SpecLateBoth == InitLate /\ [][NextLateBoth]_vars

\* the operations of the server at the end of a game
SpecLastWild == InitLastWild /\ [][NextServer]_vars

\* the operations of the engine around a slap race
NextSlap == PlayCard \/ JumpIn \/ DrawCard \/ Slap \/ PassTurn \/ ResolveSlapRaceCall

SpecSlap == InitSlap /\ [][NextSlap]_vars

(***************************************************************************)
(* The two implementations side by side: the same action is dispatched to  *)
(* the engine and handled by the server, with the same outcome of the      *)
(* shuffle.                                                                *)
(***************************************************************************)
GameActionType ==
  {"play_card", "draw_card", "call_uno", "catch_uno", "slap", "create_custom_rule",
   "request_card", "decline_request", "offer_card", "accept_offer", "decline_offer",
   "report_speaking", "select_color", "pass_turn", "jump_in"}

\* the fields of a GameAction that an action of this type carries
ActionInputs(type) ==
  LET withCard == type \in {"play_card", "jump_in", "offer_card"}
      withTarget == type \in {"catch_uno", "report_speaking", "request_card"}
  IN UNION {UNION {UNION {
       {Act(type, p, c, t, w, rule) :
          rule \in IF type = "create_custom_rule" THEN {"none", "speech"} ELSE {"none"}} :
       w \in IF type \in {"play_card", "jump_in"} THEN WildColorInputs(c)
             ELSE IF type = "select_color" THEN {NoColor, "red", "blue"} ELSE {NoColor}} :
       c \in IF withCard THEN CardInputs(p) ELSE {Undefined}} :
       <<p, t>> \in ActorInputs \X (IF withTarget THEN TargetInputs ELSE {Undefined})}

DispatchAndHandle(r, action, rnd) ==
  /\ state' = r.eng.state
  /\ selectedWildColor' = r.eng.selectedWildColor
  /\ events' = r.eng.events
  /\ outcome' = r.outcome
  /\ room' = handleAction(room, action, rnd)
  /\ message' = action
  /\ steps' = IF Effective(Engine, r.eng) \/ room' # room THEN steps + 1 ELSE MaxSteps
  /\ UNCHANGED <<config, hookVars>>

SameAction ==
  /\ steps < MaxSteps
  /\ \E type \in GameActionType, rnd \in RndInputs :
       \E action \in ActionInputs(type) :
         DispatchAndHandle(dispatch(Engine, action, rnd), action, rnd)

SpecBoth == Init /\ [][SameAction]_vars

(***************************************************************************)
(* The game_action handler with its socket: playerRooms maps the socket of *)
(* the sender to the room, and the handler passes the action on as it was  *)
(* received.                                                               *)
(***************************************************************************)
\* the action a socket submitted, kept with the player bound to that socket
SocketCall(action, sender) ==
  [type |-> action.type, playerId |-> action.playerId, cardId |-> action.cardId,
   targetPlayerId |-> action.targetPlayerId, wildColor |-> action.wildColor,
   customRule |-> action.customRule, sender |-> sender]

\* the actions of a type that a socket can submit to the room
SrvActionInputs(type) ==
  LET withCard == type \in {"play_card", "offer_card"}
      withTarget == type \in {"catch_uno", "report_speaking", "request_card"}
  IN UNION {UNION {UNION {
       {Act(type, p, c, t, w, rule) :
          rule \in IF type = "create_custom_rule" THEN {"none", "speech"} ELSE {"none"}} :
       w \in IF type = "play_card" THEN WildColorInputs(c)
             ELSE IF type = "select_color" THEN {NoColor, "red", "blue"} ELSE {NoColor}} :
       c \in IF withCard THEN SrvCardInputs(p) ELSE {Undefined}} :
       <<p, t>> \in SrvActorInputs \X (IF withTarget THEN SrvTargetInputs ELSE {Undefined})}

SocketGameAction ==
  /\ steps < MaxSteps
  /\ \E sender \in room.players, type \in GameActionType, rnd \in SrvRndInputs :
       \E action \in SrvActionInputs(type) :
         /\ room' = handleAction(room, action, rnd)
         /\ message' = SocketCall(action, sender)
         /\ outcome' = IF handleActionThrows(room.gameState, action)
                       THEN "threw" ELSE "handled"
         /\ steps' = IF room' # room THEN steps + 1 ELSE MaxSteps
  /\ UNCHANGED <<state, selectedWildColor, config, events, hookVars>>

SpecSocket == Init /\ [][SocketGameAction]_vars

(***************************************************************************)
(* useAIPlayers (src/unnamed/part_006): the hook schedules the opponents'   *)
(* actions with setTimeout.  The timeout of the turn action is kept in     *)
(* timeoutRef and cleared when the game state changes; the timeouts of      *)
(* slaps and UNO catches are not kept.  Any player may be a scripted        *)
(* opponent.  A pending timeout records the phase and the turn of the state *)
(* its decision was computed in.                                           *)
(***************************************************************************)
Timeout(kind, action) ==
  [kind |-> kind, action |-> action, phase |-> state.phase,
   turn |-> state.currentPlayerIndex]

\* clearTimeout(timeoutRef.current)
clearTurnTimeout(pending) == {t \in pending : t.kind # "turn"}

Schedule(pending) ==
  /\ Cardinality(pending) <= MaxTimeouts
  /\ timeouts' = [pending |-> pending, fired |-> NoTimeout]
  /\ UNCHANGED <<state, selectedWildColor, config, events, outcome, room, message, steps,
                 bus>>

\* processAITurn: the decision of the opponent whose turn it is replaces the
\* pending turn action
ProcessAITurn ==
  /\ state.phase # "game_over"
  /\ \E difficulty \in AIDifficulty :
       \E decision \in makeDecision(state, state.players[state.currentPlayerIndex + 1].id,
                                     difficulty) :
         Schedule(clearTurnTimeout(timeouts.pending)
                  \cup {Timeout("turn", decision.action)})

\* in a slap race every opponent schedules its slap
ScheduleSlap ==
  /\ state.phase = "slap_race"
  /\ \E p \in PlayerIds, difficulty \in AIDifficulty :
       \E decision \in makeDecision(state, p, difficulty) :
         /\ decision.action.type = "slap"
         /\ Schedule(timeouts.pending \cup {Timeout("slap", decision.action)})

shouldCatchUno(st, targetId) ==
  LET ti == findPlayerIndex(st, targetId)
  IN IF ti = -1 THEN {FALSE}
     ELSE IF Len(st.players[ti + 1].hand) # 1 \/ st.players[ti + 1].hasCalledUno
          THEN {FALSE}
     ELSE BOOLEAN

\* an opponent schedules the catch of a player who holds one card and has not
\* called UNO
ScheduleCatchUno ==
  \E p \in PlayerIds, target \in PlayerIds :
    /\ p # target
    /\ Len(state.players[findPlayerIndex(state, target) + 1].hand) = 1
    /\ ~state.players[findPlayerIndex(state, target) + 1].hasCalledUno
    /\ TRUE \in shouldCatchUno(state, target)
    /\ Schedule(timeouts.pending
                \cup {Timeout("catch", Act("catch_uno", p, Undefined, target, NoColor, "none"))})

shouldCallUno(st, id) ==
  LET pi == findPlayerIndex(st, id)
  IN IF pi = -1 THEN {FALSE}
     ELSE IF Len(st.players[pi + 1].hand) # 2 THEN {FALSE}
     ELSE BOOLEAN

\* the engine after the optional call_uno that precedes the turn action
beforeTurnAction(t, callUno) ==
  IF t.kind = "turn" /\ t.action.type = "play_card" /\ callUno
  THEN [dispatch(Engine, Simple("call_uno", t.action.playerId), 1).eng EXCEPT !.events = <<>>]
  ELSE Engine

\* the state after a dispatch of the hook or of a player: when the game state
\* changed, the effect runs again and its cleanup clears timeoutRef
CommitHook(r, action, pending, fired) ==
  /\ state' = r.eng.state
  /\ selectedWildColor' = r.eng.selectedWildColor
  /\ events' = r.eng.events
  /\ outcome' = r.outcome
  /\ steps' = StepsAfter(Engine, r.eng)
  /\ message' = action
  /\ timeouts' = [pending |-> IF r.eng.state # state THEN clearTurnTimeout(pending)
                               ELSE pending,
                  fired |-> fired]
  /\ UNCHANGED <<config, room, bus>>

\* a pending timeout fires: the callback of the turn action returns when the
\* game is over and dispatches call_uno first when shouldCallUno says so
TimeoutFires ==
  /\ steps < MaxSteps
  /\ \E t \in timeouts.pending, rnd \in RndInputs :
       \E callUno \in shouldCallUno(state, t.action.playerId) :
         IF t.kind = "turn" /\ state.phase = "game_over"
         THEN /\ timeouts' = [pending |-> timeouts.pending \ {t}, fired |-> NoTimeout]
              /\ UNCHANGED <<state, selectedWildColor, config, events, outcome, room,
                             message, steps, bus>>
         ELSE CommitHook(dispatch(beforeTurnAction(t, callUno), t.action, rnd), t.action,
                         timeouts.pending \ {t}, t)

\* a player's action reaches the engine while timeouts are pending
PlayerDispatch ==
  /\ steps < MaxSteps
  /\ \E type \in GameActionType, rnd \in RndInputs :
       \E action \in ActionInputs(type) :
         CommitHook(dispatch(Engine, action, rnd), action, timeouts.pending, NoTimeout)

NextHook ==
  \/ ProcessAITurn \/ ScheduleSlap \/ ScheduleCatchUno \/ TimeoutFires \/ PlayerDispatch

SpecHook == Init /\ [][NextHook]_vars

\* an EventBus on its own: the game is in its first start and does not move
InitFirstStart ==
  /\ InitEngine(Starts[1], allRules(TRUE))
  /\ InitRoom(Starts[1], allRules(TRUE))
  /\ InitHook
  /\ InitBus

SpecBus == InitFirstStart /\ [][NextBus]_vars

(***************************************************************************)
(* Properties.                                                             *)
(***************************************************************************)
AllCards(st) ==
  LET RECURSIVE hands(_)
      hands(i) == IF i = 0 THEN <<>> ELSE hands(i - 1) \o st.players[i].hand
  IN st.drawPile \o st.discardPile \o hands(Len(st.players))

DeckConserved(st) ==
  /\ Len(AllCards(st)) = 108
  /\ SeqToSet(AllCards(st)) = DeckIds

\* C1: in the client GameEngine the draw pile, the discard pile and the hands
\* together always hold exactly the 108 cards of the deck, each card once, with
\* no undefined entry
C1_ClientDeckConserved == DeckConserved(state)

\* C2: in the server host, after any sequence of handled game_action messages,
\* the draw pile, the discard pile and the hands together hold 108 cards and no
\* card id occurs in two places
C2_ServerDeckConserved == DeckConserved(room.gameState)

\* a draw_card found the draw pile empty and reshuffled the discard pile
C2_Witness ==
  /\ message.type = "draw_card"
  /\ outcome = "handled"
  /\ Len(room.gameState.discardPile) = 1
  /\ Len(room.gameState.drawPile) >= 100

\* validateAction returns { valid: false } for the action
Rejects(action) ==
  /\ action.type # "null"
  /\ ~validateAction(Engine, action).valid
  /\ ~validateAction(Engine, action).threw

\* C3: for every action that validateAction rejects, dispatch leaves the
\* GameState (lastAction included) and the wild-color override unchanged and
\* emits exactly one event, action_rejected with that action and the reason of
\* the validation; no state_changed is emitted
C3_RejectedLeavesStateUnchanged ==
  [][Rejects(message') =>
       /\ state' = state
       /\ selectedWildColor' = selectedWildColor
       /\ events' = <<[type |-> "action_rejected", action |-> message',
                       reason |-> validateAction(Engine, message').reason]>>]_vars

\* a play by a player whose turn it is not was rejected
C3_Witness ==
  /\ outcome = "rejected"
  /\ message.type = "play_card"
  /\ events = <<[type |-> "action_rejected", action |-> message,
                 reason |-> "Not your turn"]>>
  /\ state.lastAction # message

\* the hand of a player in a GameState
HandIn(st, playerId) == st.players[findPlayerIndex(st, playerId) + 1].hand

IsPlay(action) == action.type \in {"play_card", "jump_in"}

\* dispatch applied a play of the only card the player held
LastCardPlayed ==
  /\ IsPlay(message')
  /\ outcome' = "applied"
  /\ Len(HandIn(state, message'.playerId)) = 1

\* C4: when an accepted card play removes the last card of a hand, the state
\* after it has phase game_over and the player as winner, and the card had no
\* effect: nobody drew, the accumulator, the direction and silence mode are as
\* before, no turn_changed, slap_race_started or silence_toggled event was
\* emitted, and the turn index is the one before the play or (jump_in) the
\* index of the player who played
C4_LastCardWinsWithoutEffects ==
  [][LastCardPlayed =>
       /\ state'.phase = "game_over"
       /\ state'.winner = message'.playerId
       /\ HandIn(state', message'.playerId) = <<>>
       /\ \A i \in 1..Len(state.players) :
            state.players[i].id # message'.playerId
              => state'.players[i].hand = state.players[i].hand
       /\ state'.drawPile = state.drawPile
       /\ state'.discardPile = Append(state.discardPile, message'.cardId)
       /\ state'.stackedDrawAmount = state.stackedDrawAmount
       /\ state'.direction = state.direction
       /\ state'.silenceMode = state.silenceMode
       /\ state'.pendingAction = state.pendingAction
       /\ state'.currentPlayerIndex \in
            {state.currentPlayerIndex, findPlayerIndex(state, message'.playerId)}
       /\ events' = <<[type |-> "game_over", winner |-> message'.playerId],
                      [type |-> "state_changed"]>>]_vars

\* a player won with a draw-two as the last card
C4_Witness ==
  /\ outcome = "applied"
  /\ message.type = "play_card"
  /\ state.lastAction = message
  /\ HandIn(state, message.playerId) = <<>>
  /\ Value(message.cardId) = "draw2"
  /\ state.phase = "game_over"

\* the acting player exists and it is another player's turn
NotCurrent(action) ==
  /\ findPlayerIndex(state, action.playerId) # -1
  /\ state.players[state.currentPlayerIndex + 1].id # action.playerId

\* the card is held by the acting player
CardHeld(action) ==
  /\ findPlayerIndex(state, action.playerId) # -1
  /\ action.cardId # Undefined
  /\ action.cardId \in SeqToSet(HandIn(state, action.playerId))

\* the jumpIn rule is on and the card has the color and the numeric value of the
\* discard top
ExactJump(action) ==
  /\ config.enabledRules.jumpIn
  /\ CardHeld(action)
  /\ Color(action.cardId) = Color(getTopCard(state))
  /\ Value(action.cardId) = Value(getTopCard(state))
  /\ IsNumber(Value(action.cardId))

RejectedUnchanged ==
  /\ outcome' = "rejected"
  /\ state' = state
  /\ selectedWildColor' = selectedWildColor

\* C5: a play (play_card or jump_in) of a card of their hand by a player who is
\* not the current player is rejected and leaves the state unchanged unless the
\* jumpIn rule is enabled and the card matches the discard top in color and
\* numeric value
C5_OutOfTurnPlayNeedsExactMatch ==
  [][(IsPlay(message') /\ NotCurrent(message') /\ CardHeld(message')
      /\ ~ExactJump(message'))
       => RejectedUnchanged]_vars

\* C6: an action other than a card play that is submitted by a player who is
\* not the current player (draw_card, pass_turn, create_custom_rule,
\* select_color, ...) leaves currentPlayerIndex as it is
C6_OutOfTurnActionKeepsTurn ==
  [][(message'.type # "null" /\ ~IsPlay(message') /\ NotCurrent(message'))
       => state'.currentPlayerIndex = state.currentPlayerIndex]_vars

\* the action is a sub-action of a phase the game is not in
OutsidePhase(action) ==
  \/ action.type = "select_color" /\ state.phase # "color_selection"
  \/ action.type = "slap" /\ state.phase # "slap_race"
  \/ action.type = "create_custom_rule" /\ state.phase # "custom_rule_creation"
  \/ action.type \in {"decline_request", "offer_card"} /\ state.phase # "card_request"
  \/ action.type \in {"accept_offer", "decline_offer"} /\ state.phase # "offering_card"

\* the GameState is as before, the record of the last action aside
SameButLastAction ==
  /\ [state' EXCEPT !.lastAction = state.lastAction] = state
  /\ selectedWildColor' = selectedWildColor

\* C7: a sub-action dispatched outside its phase changes nothing: phase,
\* players, piles, turn index, pendingAction and custom rules are as before
C7_SubActionOutsidePhaseChangesNothing ==
  [][OutsidePhase(message') => SameButLastAction]_vars

\* C8: play_card, jump_in and offer_card leave the state unchanged when the
\* acting player does not hold the card the action names
C8_AbsentCardChangesNothing ==
  [][(message'.type \in {"play_card", "jump_in", "offer_card"}
      /\ findPlayerIndex(state, message'.playerId) # -1
      /\ message'.cardId # Undefined
      /\ ~CardHeld(message'))
       => SameButLastAction]_vars

\* C9: a play (play_card or jump_in) of a wild or wild_draw4 whose action
\* carries no wildColor is rejected and the state is unchanged
C9_WildPlayNeedsColor ==
  [][(IsPlay(message')
      /\ CardHeld(message')
      /\ Color(message'.cardId) = "wild"
      /\ message'.wildColor = NoColor)
       => RejectedUnchanged]_vars

\* the hand of a player in the server's GameState
SrvHand(gs, playerId) == gs.players[findPlayerIndex(gs, playerId) + 1].hand

\* the hands of all players but one are the same in two GameStates
OtherHandsSame(before, after, playerId) ==
  \A i \in 1..Len(before.players) :
     before.players[i].id # playerId => after.players[i].hand = before.players[i].hand

\* C10 (server host): a call_uno message changes the GameState only when the
\* caller holds exactly 2 cards; a catch_uno message changes it only when the
\* target holds exactly 1 card and has not declared, and then the target holds
\* 2 more cards and no other hand changed
C10_ServerUno ==
  [][/\ (message'.type = "call_uno" /\ room'.gameState # room.gameState)
          => Len(SrvHand(room.gameState, message'.playerId)) = 2
     /\ (message'.type = "catch_uno" /\ room'.gameState # room.gameState)
          => /\ Len(SrvHand(room.gameState, message'.targetPlayerId)) = 1
             /\ ~room.gameState.players[
                    findPlayerIndex(room.gameState, message'.targetPlayerId) + 1].hasCalledUno
             /\ Len(SrvHand(room'.gameState, message'.targetPlayerId)) = 3
             /\ OtherHandsSame(room.gameState, room'.gameState,
                               message'.targetPlayerId)]_vars

\* C10 (client engine): the same for dispatch
C10_ClientUno ==
  [][/\ (message'.type = "call_uno" /\ outcome' = "applied")
          => Len(HandIn(state, message'.playerId)) = 2
     /\ (message'.type = "call_uno"
         /\ findPlayerIndex(state, message'.playerId) # -1
         /\ Len(HandIn(state, message'.playerId)) # 2)
          => RejectedUnchanged
     /\ (message'.type = "catch_uno" /\ outcome' = "applied")
          => /\ Len(HandIn(state, message'.targetPlayerId)) = 1
             /\ ~state.players[
                    findPlayerIndex(state, message'.targetPlayerId) + 1].hasCalledUno
             /\ Len(HandIn(state', message'.targetPlayerId)) = 3
             /\ OtherHandsSame(state, state', message'.targetPlayerId)]_vars

\* the seat that follows seat i in the direction of play
SeatAfter(st, i) == (i + st.direction + Len(st.players)) % Len(st.players)

\* the seat of the player who plays: the current seat, or the seat of the
\* jumping player
PlayingSeat(action) ==
  IF action.type = "jump_in" THEN findPlayerIndex(state, action.playerId)
  ELSE state.currentPlayerIndex

\* dispatch applied the play of a card that was not the last of the hand
CardPlayed(action) ==
  /\ IsPlay(action)
  /\ outcome' = "applied"
  /\ CardHeld(action)
  /\ Len(HandIn(state, action.playerId)) > 1

\* the hand holds a card with this value
HoldsValue(hand, value) ==
  \E i \in 1..Len(hand) : hand[i] # Undefined /\ Value(hand[i]) = value

SrvCurrent(action) ==
  /\ findPlayerIndex(room.gameState, action.playerId) # -1
  /\ findPlayerIndex(room.gameState, action.playerId) = room.gameState.currentPlayerIndex

\* C12 (server host): while stackedDrawAmount is greater than 0, a play_card
\* message of the current player changes the GameState only when the card is
\* of the draw kind of the discard top
C12_ServerStackedPlaySameKind ==
  [][(message'.type = "play_card" /\ SrvCurrent(message')
      /\ room.gameState.stackedDrawAmount > 0
      /\ room'.gameState # room.gameState)
       => /\ isDrawCard(message'.cardId)
          /\ Value(message'.cardId) = Value(srvGetTopCard(room.gameState))]_vars

\* C12 (client engine): while stackedDrawAmount is greater than 0, a play_card
\* of the current player is applied only when the card is of the draw kind of
\* the discard top
C12_ClientStackedPlaySameKind ==
  [][(message'.type = "play_card" /\ ~NotCurrent(message')
      /\ state.stackedDrawAmount > 0
      /\ outcome' = "applied")
       => /\ isDrawCard(message'.cardId)
          /\ Value(message'.cardId) = Value(getTopCard(state))]_vars

\* C13: with n players, playing seat i and direction d, an accepted skip makes
\* the current index (i + 2d) mod n and keeps the direction; an accepted
\* reverse with n > 2 makes the direction -d and the current index
\* (i - d) mod n; an accepted reverse with n = 2 leaves the player who played
\* it current
C13_SkipAndReverse ==
  [][CardPlayed(message') =>
       LET n == Len(state.players)
           i == PlayingSeat(message')
           d == state.direction
       IN /\ isSkipCard(message'.cardId) =>
               /\ state'.currentPlayerIndex = (i + 2 * d + 2 * n) % n
               /\ state'.direction = d
          /\ (isReverseCard(message'.cardId) /\ n > 2) =>
               /\ state'.direction = -d
               /\ state'.currentPlayerIndex = (i - d + n) % n
          /\ (isReverseCard(message'.cardId) /\ n = 2) =>
               state'.currentPlayerIndex = i]_vars

\* with 4 players and direction +1 a skip played at index 0 made index 2 current
C13_Witness ==
  /\ outcome = "applied"
  /\ message.type = "play_card"
  /\ isSkipCard(message.cardId)
  /\ message.playerId = state.players[1].id
  /\ Len(state.players) = 4
  /\ state.direction = 1
  /\ state.currentPlayerIndex = 2
  /\ Len(state.players[1].hand) = 1

Hands(st) == [i \in 1..Len(st.players) |-> st.players[i].hand]

\* the fields C14 compares
RoundTripFields(st) ==
  <<st.phase, st.pendingAction, Hands(st), st.drawPile, st.discardPile,
    st.currentPlayerIndex, st.direction, st.stackedDrawAmount>>

\* the request that has just been dispatched took effect from phase playing
RequestedFromPlaying ==
  /\ message'.type = "request_card"
  /\ outcome' = "applied"
  /\ config.enabledRules.offerCard
  /\ state.phase = "playing"
  /\ state'.phase = "card_request"

\* the state after decline_request by the asked player, dispatched right after
\* the request
AfterDecline ==
  dispatch([state |-> state', selectedWildColor |-> selectedWildColor',
            events |-> <<>>, threw |-> FALSE],
           Simple("decline_request", message'.targetPlayerId), 1)

\* C14: with offerCard enabled, request_card(A to B) dispatched in phase
\* playing and followed by decline_request(B) gives a state that equals the
\* state before the request in phase (playing), pendingAction (null), every
\* hand, both piles, turn index, direction and accumulator
C14_RequestDeclineRoundTrip ==
  [][RequestedFromPlaying =>
       /\ AfterDecline.outcome = "applied"
       /\ AfterDecline.eng.state.phase = "playing"
       /\ AfterDecline.eng.state.pendingAction = NullPending
       /\ RoundTripFields(AfterDecline.eng.state) = RoundTripFields(state)]_vars

\* a decline_request by the asked player has just ended a pending request
C14_Witness ==
  /\ outcome = "applied"
  /\ message.type = "decline_request"
  /\ config.enabledRules.offerCard
  /\ state.phase = "playing"
  /\ state.pendingAction = NullPending
  /\ Len(events) > 0
  /\ events[1].type = "request_declined"
  /\ events[1].declinerId = message.playerId

\* seq without its first occurrence of x (seq itself when x is absent)
Without(seq, x) ==
  LET m == {i \in 1..Len(seq) : seq[i] = x}
  IN IF m = {} THEN seq
     ELSE SubSeq(seq, 1, Min(m) - 1) \o SubSeq(seq, Min(m) + 1, Len(seq))

\* C15: whenever accept_offer is applied in phase offering_card, the offered
\* card leaves the offerer's hand and is appended to the requester's hand
\* exactly once, every other card, hand and pile is unchanged, and the phase is
\* playing with pendingAction null
C15_AcceptOfferMovesCardOnce ==
  [][(message'.type = "accept_offer" /\ outcome' = "applied"
      /\ state.phase = "offering_card") =>
       LET pa == state.pendingAction
           oi == findPlayerIndex(state, pa.offererId) + 1
           ti == findPlayerIndex(state, pa.targetPlayer) + 1
       IN /\ state'.phase = "playing"
          /\ state'.pendingAction = NullPending
          /\ oi >= 1 /\ ti >= 1
          /\ Len(state'.players) = Len(state.players)
          /\ \E k \in 1..Len(state.players[oi].hand) :
               state.players[oi].hand[k] = pa.offeredCardId
          /\ state'.players[oi].hand = Without(state.players[oi].hand, pa.offeredCardId)
          /\ state'.players[ti].hand = Append(state.players[ti].hand, pa.offeredCardId)
          /\ \A i \in 1..Len(state.players) :
               i \notin {oi, ti} => state'.players[i].hand = state.players[i].hand
          /\ state'.drawPile = state.drawPile
          /\ state'.discardPile = state.discardPile]_vars

\* C16: for every difficulty tier and every reachable engine state in which
\* makeDecision returns a decision, validateAction accepts decision.action in
\* that same state
C16_DecisionIsValid ==
  \A p \in PlayerIds, difficulty \in AIDifficulty :
    \A decision \in makeDecision(state, p, difficulty) :
      validateAction(Engine, decision.action).valid

\* the engine's valid moves of the player whose turn it is
CurrentValidMoves ==
  getValidMoves(Engine, state.players[state.currentPlayerIndex + 1].id)

\* C17: for every difficulty tier, when it is the scripted opponent's turn in
\* phase playing with the accumulator greater than 0 and the engine accepts
\* no card of its hand as a counter, makeDecision returns a draw_card action
C17_DrawsWhenNoCounter ==
  (/\ state.phase = "playing"
   /\ state.stackedDrawAmount > 0
   /\ isDrawCard(getTopCard(state))
   /\ ~getValidMovesThrows(Engine, state.players[state.currentPlayerIndex + 1].id)
   /\ Len(CurrentValidMoves) = 0) =>
    \A difficulty \in AIDifficulty :
      LET decisions == makeDecision(state, state.players[state.currentPlayerIndex + 1].id,
                                    difficulty)
      IN /\ decisions # {}
         /\ \A decision \in decisions : decision.action.type = "draw_card"

\* a GameState that differs from gs in the contents of the hands of the
\* players other than playerId and in the draw pile, and in nothing else
OtherSecrets(gs, playerId) ==
  [gs EXCEPT !.players =
               [i \in 1..Len(gs.players) |->
                  [gs.players[i] EXCEPT !.hand =
                     IF gs.players[i].id = playerId THEN @
                     ELSE [k \in 1..Len(@) |-> (@[k] % 108) + 1]]],
             !.drawPile = Reverse(@) \o <<BogusCardId>>]

\* C18: getStateForPlayer(state, p) keeps p's own hand, replaces the hand of
\* every other player by a sequence of the same length made of one fixed
\* placeholder card, and sends an empty draw pile; two states that differ only
\* in the other players' hands and in the draw pile give p the same snapshot
C18_SnapshotHidesSecrets ==
  \A p \in room.players :
    LET gs == room.gameState
        snap == gameStateUpdated[p]
    IN /\ snap.drawPile = <<>>
       /\ Len(snap.players) = Len(gs.players)
       /\ \A i \in 1..Len(gs.players) :
            /\ gs.players[i].id = p => snap.players[i].hand = gs.players[i].hand
            /\ gs.players[i].id # p =>
                 /\ Len(snap.players[i].hand) = Len(gs.players[i].hand)
                 /\ \A k \in 1..Len(snap.players[i].hand) :
                      snap.players[i].hand[k] = HiddenCard
       /\ HiddenCard \notin DeckIds
       /\ getStateForPlayer(OtherSecrets(gs, p), p) = snap

\* an action was handled and the snapshot of player 1 withholds a non-empty
\* hand of another player and a non-empty draw pile
C18_Witness ==
  /\ outcome = "handled"
  /\ steps > 0
  /\ 1 \in room.players
  /\ room.gameState.drawPile # <<>>
  /\ gameStateUpdated[1].drawPile = <<>>
  /\ OtherSecrets(room.gameState, 1) # room.gameState
  /\ \E i \in 1..Len(room.gameState.players) :
       /\ room.gameState.players[i].id # 1
       /\ Len(room.gameState.players[i].hand) > 0
       /\ gameStateUpdated[1].players[i].hand # room.gameState.players[i].hand

\* the engine and the server hold the same game
SamePrior ==
  LET gs == room.gameState
  IN /\ state.phase = gs.phase
     /\ state.players = gs.players
     /\ state.currentPlayerIndex = gs.currentPlayerIndex
     /\ state.direction = gs.direction
     /\ state.drawPile = gs.drawPile
     /\ state.discardPile = gs.discardPile
     /\ state.pendingAction = gs.pendingAction
     /\ state.customRules = gs.customRules
     /\ state.silenceMode = gs.silenceMode
     /\ state.stackedDrawAmount = gs.stackedDrawAmount
     /\ state.winner = gs.winner
     /\ selectedWildColor = gs.selectedWildColor
     /\ config.enabledRules = room.config.enabledRules

\* the color a card has to match on the server
srvEffectiveColor(gs) ==
  IF gs.selectedWildColor # NoColor THEN gs.selectedWildColor
  ELSE Color(srvGetTopCard(gs))

\* C19: for the same enabled rules, the same prior state and the same action,
\* GameEngine.dispatch and the server's handleAction give next states that
\* agree on phase, current player index, direction, accumulator, winner,
\* effective color, every hand's size and the discard pile
C19_ClientServerAgree ==
  [][(SamePrior /\ message' # NullAction /\ room' # room) =>
       LET gs == room.gameState'
       IN /\ state'.phase = gs.phase
          /\ state'.currentPlayerIndex = gs.currentPlayerIndex
          /\ state'.direction = gs.direction
          /\ state'.stackedDrawAmount = gs.stackedDrawAmount
          /\ state'.winner = gs.winner
          /\ getCurrentColor(getTopCard(state'), selectedWildColor') = srvEffectiveColor(gs)
          /\ Len(state'.players) = Len(gs.players)
          /\ \A i \in 1..Len(gs.players) :
               Len(state'.players[i].hand) = Len(gs.players[i].hand)
          /\ state'.discardPile = gs.discardPile]_vars

\* C20: once the phase is game_over it stays game_over and the winner stays
\* the same under every later dispatch and every resolveSlapRace call; only
\* reset leaves the terminal state
C20_GameOverIsTerminal ==
  [][(state.phase = "game_over" /\ outcome' # "reset") =>
       /\ state'.phase = "game_over"
       /\ state'.winner = state.winner]_vars

PendingPhases ==
  {"color_selection", "slap_race", "custom_rule_creation", "card_request", "offering_card"}

\* C21: while the phase is a pending sub-interaction, a dispatched play_card,
\* draw_card or pass_turn changes no hand, no pile and not the turn pointer
C21_PendingPhaseBlocksTurnActions ==
  [][(state.phase \in PendingPhases
      /\ message'.type \in {"play_card", "draw_card", "pass_turn"}) =>
       /\ Hands(state') = Hands(state)
       /\ state'.drawPile = state.drawPile
       /\ state'.discardPile = state.discardPile
       /\ state'.currentPlayerIndex = state.currentPlayerIndex]_vars

\* the state changed phase or turn since the decision of the timeout
Stale(t) == t.phase # state.phase \/ t.turn # state.currentPlayerIndex

\* C22: an opponent action whose timeout fires after the engine state has
\* changed phase or turn since the decision was computed is rejected by
\* validateAction and leaves the state unchanged
C22_StaleTimeoutRejected ==
  [][(timeouts'.fired # NoTimeout /\ Stale(timeouts'.fired)) =>
       /\ outcome' = "rejected"
       /\ state' = state]_vars

\* gs with the player marked as disconnected
Disconnected(gs, playerId) ==
  [gs EXCEPT !.players[findPlayerIndex(gs, playerId) + 1].isConnected = FALSE]

\* actions of the players of the game: every card of the hand, a draw, a
\* call and a color
RemainingInputs(playerId) ==
  {Act("play_card", playerId, c, Undefined, w, "none") :
     c \in SrvCardInputs(playerId), w \in {NoColor, "red"}}
  \cup {Simple(type, playerId) : type \in {"draw_card", "call_uno", "slap"}}
  \cup {Act("select_color", playerId, Undefined, Undefined, "blue", "none")}

\* C23: when a player's socket disconnects or leaves during a started game
\* while other players remain, the only change to the GameState is that
\* player's isConnected becoming false, and the actions of the remaining
\* players are handled as they would have been without the disconnect
C23_DisconnectOnlyFlipsFlag ==
  [][(outcome' = "disconnected" /\ room'.players # {}) =>
       \E p \in room.players \ room'.players :
         /\ room'.players = room.players \ {p}
         /\ room'.gameState = Disconnected(room.gameState, p)
         /\ room'.config = room.config
         /\ \A q \in room'.players, rnd \in 1..NumShuffles :
              \A action \in RemainingInputs(q) :
                handleAction(room', action, rnd).gameState
                  = Disconnected(handleAction(room, action, rnd).gameState, p)]_vars

\* a player has disconnected from a game in progress, another remains
C23_Witness ==
  /\ outcome = "disconnected"
  /\ room.players # {}
  /\ room.gameState.phase = "playing"
  /\ \E i \in 1..Len(room.gameState.players) :
       /\ ~room.gameState.players[i].isConnected
       /\ room.gameState.players[i].id \notin room.players
       /\ room.gameState.currentPlayerIndex = i - 1

ListenersOf(listeners, event) ==
  IF event \in DOMAIN listeners THEN listeners[event] ELSE <<>>

\* C24: emit(event, payload) calls every handler registered for that event
\* and not yet removed exactly once, in registration order, whether or not a
\* handler throws, and does not throw itself; handlers of other events are not
\* called; on appends a handler that is not yet registered and leaves one that
\* is where it was; off and the returned unsubscribe function remove it
C24_EmitFanOut ==
  [][LET last == bus'.last
         before == ListenersOf(bus.listeners, last.event)
         after == ListenersOf(bus'.listeners, last.event)
         others == \A e \in BusEvents \ {last.event} :
                     ListenersOf(bus'.listeners, e) = ListenersOf(bus.listeners, e)
     IN /\ last.op = "emit" =>
             /\ bus'.calls = [i \in 1..Len(before) |->
                                [handler |-> before[i], payload |-> last.payload]]
             /\ \A i, j \in 1..Len(before) : before[i] = before[j] => i = j
             /\ ~bus'.threw
             /\ after = before /\ others
        /\ last.op = "on" =>
             /\ after = (IF \E i \in 1..Len(before) : before[i] = last.handler
                          THEN before ELSE Append(before, last.handler))
             /\ others
        /\ last.op \in {"off", "unsubscribe"} =>
             /\ after = Without(before, last.handler)
             /\ \A i \in 1..Len(after) : after[i] # last.handler
             /\ others]_vars

\* an emit has called a handler that throws and the handlers registered after
\* it, while the other event has a handler that was not called
C24_Witness ==
  /\ bus.last.op = "emit"
  /\ Len(bus.calls) = 3
  /\ bus.calls[1].handler \in Throwing
  /\ ~bus.threw
  /\ \E e \in BusEvents \ {bus.last.event} : Len(ListenersOf(bus.listeners, e)) > 0

\* a numeral that starts no house rule under the enabled rules
NoHouseRule(card) ==
  /\ IsNumber(Value(card))
  /\ ~(config.enabledRules.customRule /\ Value(card) = "0")
  /\ ~(config.enabledRules.slap /\ Value(card) = "5")
  /\ ~(config.enabledRules.silence /\ Value(card) = "7")

\* the step applies an exact-match play of a numeral without house rule by a
\* player who is not the current one and keeps cards after it
OutOfTurnPlay(type) ==
  LET j == findPlayerIndex(state, message'.playerId)
  IN /\ message'.type = type
     /\ outcome' = "applied"
     /\ state.phase = "playing"
     /\ j # -1 /\ j # state.currentPlayerIndex
     /\ canJumpIn(Engine, message'.playerId, message'.cardId)
     /\ NoHouseRule(message'.cardId)
     /\ Len(state.players[j + 1].hand) > 1

\* C25: after an accepted out-of-turn exact-match play of a numeral with no
\* house rule by the player at index j, carried by play_card or by jump_in, the
\* current player is (j + direction) mod n
C25_JumperBecomesCurrent ==
  [][(OutOfTurnPlay("play_card") \/ OutOfTurnPlay("jump_in")) =>
       state'.currentPlayerIndex =
         (findPlayerIndex(state, message'.playerId) + state.direction)
           % Len(state.players)]_vars

\* what the claim says of a state after a draw card of the given amount was
\* played in turn from the state before, without stacking
DrewAndSkipped(before, after, amount) ==
  LET n == Len(before.players)
      i == before.currentPlayerIndex
      next == (i + before.direction + n) % n
  IN /\ Len(after.players[next + 1].hand) = Len(before.players[next + 1].hand) + amount
     /\ after.stackedDrawAmount = 0
     /\ after.currentPlayerIndex = (i + 2 * before.direction + 2 * n) % n

\* the step plays a draw-two or a wild-draw-four in turn, with stackDraw
\* disabled, from the same state of the engine and of the host, and the
\* player keeps cards after it
InTurnDrawCardPlay ==
  /\ SamePrior
  /\ ~config.enabledRules.stackDraw
  /\ message'.type = "play_card"
  /\ outcome' = "applied"
  /\ state.phase = "playing"
  /\ state.stackedDrawAmount = 0
  /\ findPlayerIndex(state, message'.playerId) = state.currentPlayerIndex
  /\ isDrawCard(message'.cardId)
  /\ Len(state.players[state.currentPlayerIndex + 1].hand) > 1
  /\ Len(state.drawPile) >= getDrawAmount(message'.cardId)

\* C26: with stackDraw disabled, in the client engine and in the server host,
\* after an in-turn draw-two (wild-draw-four) by the player at index i the
\* player at (i + d) mod n has 2 (4) cards more, the accumulator is 0 and the
\* current player is (i + 2d) mod n
C26_NoStackDrawSkipsOne ==
  [][InTurnDrawCardPlay =>
       /\ DrewAndSkipped(state, state', getDrawAmount(message'.cardId))
       /\ DrewAndSkipped(room.gameState, room.gameState',
                         getDrawAmount(message'.cardId))]_vars

\* C27: an accepted draw_card by the current player with accumulator k adds
\* exactly k cards to that player's hand when k > 0 and exactly 1 card when
\* k = 0, sets the accumulator to 0, advances the current index by one step in
\* the current direction and leaves the direction, the other hands and the
\* discard top unchanged
C27_DrawCardDrawsAndAdvances ==
  [][(message'.type = "draw_card" /\ outcome' = "applied" /\ state.phase = "playing") =>
       LET n == Len(state.players)
           i == state.currentPlayerIndex
           k == state.stackedDrawAmount
           hand == state.players[i + 1].hand
       IN /\ message'.playerId = state.players[i + 1].id
          /\ Len(state'.players[i + 1].hand) = Len(hand) + (IF k > 0 THEN k ELSE 1)
          /\ SubSeq(state'.players[i + 1].hand, 1, Len(hand)) = hand
          /\ state'.stackedDrawAmount = 0
          /\ state'.currentPlayerIndex = (i + state.direction + n) % n
          /\ state'.direction = state.direction
          /\ \A j \in 1..n : j # i + 1 => state'.players[j].hand = state.players[j].hand
          /\ getTopCard(state') = getTopCard(state)]_vars

\* the seats that the claim lets lose a slap race with the given results
LoserSeats(st, results) ==
  LET n == Len(st.players)
      Slapped(j) == \E i \in 1..Len(results) : results[i].playerId = st.players[j].id
      missing == {j \in 1..n : ~Slapped(j)}
  IN IF missing # {} THEN {Min(missing)}
     ELSE {j \in 1..n :
             \E i \in 1..Len(results) :
                /\ results[i].playerId = st.players[j].id
                /\ \A k \in 1..Len(results) : results[k].timestamp <= results[i].timestamp}

C29_SlapsResolveRace ==
  [][(/\ Len(state.players) = 2
      /\ state.phase = "slap_race"
      /\ state.lastAction.type = "slap"
      /\ message'.type = "slap"
      /\ outcome' = "applied"
      /\ message'.playerId # state.lastAction.playerId) =>
       state'.phase = "playing"]_vars

\* what the claim says of the state after the player at the seat drew n cards
\* from the draw pile and the discard pile that the draw found
DiscardAfterDraw(after, seat, pile, discard, n) ==
  LET top == discard[Len(discard)]
  IN /\ getTopCard(after) = top
     /\ IF Len(pile) < n
        THEN /\ after.discardPile = <<top>>
             /\ \A i \in 1..(Len(discard) - 1) :
                  discard[i] \in SeqToSet(after.drawPile)
                               \cup SeqToSet(after.players[seat + 1].hand)
        ELSE after.discardPile = discard

\* C30: when a draw of n cards finds fewer than n cards in the draw pile, the
\* discard pile after it is the one card that was on top, every other former
\* discard card is in the draw pile or in the drawer's hand and the discard
\* top is the same card; a draw that finds at least n cards leaves the discard
\* pile untouched.  The draws are those of draw_card, catch_uno,
\* report_speaking, resolveSlapRace and of a draw card that forces a draw
C30_ReshuffleKeepsTop ==
  [][LET action == message'
         target == findPlayerIndex(state, action.targetPlayerId)
         seat == SeatAfter(state, PlayingSeat(action))
         played == Append(state.discardPile, action.cardId)
     IN /\ (action.type = "draw_card" /\ outcome' = "applied") =>
             DiscardAfterDraw(state', findPlayerIndex(state, action.playerId),
                              state.drawPile, state.discardPile,
                              IF state.stackedDrawAmount > 0
                              THEN state.stackedDrawAmount ELSE 1)
        /\ (action.type = "catch_uno" /\ outcome' = "applied" /\ target # -1) =>
             DiscardAfterDraw(state', target, state.drawPile, state.discardPile, 2)
        /\ (action.type = "report_speaking" /\ outcome' = "applied" /\ target # -1
             /\ config.enabledRules.silence /\ state.silenceMode) =>
             DiscardAfterDraw(state', target, state.drawPile, state.discardPile, 1)
        /\ outcome' = "resolved" =>
             \E l \in 1..Len(state.players) :
                /\ state'.players[l].hand # state.players[l].hand
                /\ DiscardAfterDraw(state', l - 1, state.drawPile, state.discardPile, 1)
        /\ (CardPlayed(action) /\ isDrawCard(action.cardId)
             /\ ~config.enabledRules.stackDraw) =>
             DiscardAfterDraw(state', seat, state.drawPile, played,
                              getDrawAmount(action.cardId))
        /\ (CardPlayed(action) /\ isDrawCard(action.cardId)
             /\ config.enabledRules.stackDraw
             /\ ~HoldsValue(state.players[seat + 1].hand, Value(action.cardId))) =>
             DiscardAfterDraw(state', seat, state.drawPile, played,
                              state.stackedDrawAmount + getDrawAmount(action.cardId))
    ]_vars

\* a draw found the draw pile too short and cards of the discard pile went
\* back to the draw pile
C30_Witness ==
  /\ message.type \in {"draw_card", "catch_uno", "play_card"}
  /\ outcome = "applied"
  /\ Len(state.discardPile) = 1
  \* more cards than a deal leaves in the draw pile
  /\ Len(state.drawPile) >= Cardinality(DeckIds) - Len(state.players) * INITIAL_HAND_SIZE
  /\ \E e \in SeqToSet(events) : e.type \in {"card_drawn", "uno_caught"}

\* the number of cards a draw_card of the current player asks for
DrawCardCount(st) == IF st.stackedDrawAmount > 0 THEN st.stackedDrawAmount ELSE 1

\* C31: a draw of n cards that returns without an error adds exactly n cards
\* to the hand of the drawer, in forceDrawCards of the client and in drawCards
\* of the server, also when the two piles hold fewer than n cards
C31_DrawDeliversAllOrFails ==
  [][/\ (/\ message'.type = "draw_card"
          /\ outcome' = "applied"
          /\ state.phase = "playing") =>
          LET i == state.currentPlayerIndex
          IN Len(state'.players[i + 1].hand) =
               Len(state.players[i + 1].hand) + DrawCardCount(state)
     /\ (/\ message'.type = "draw_card"
          /\ outcome' = "handled"
          /\ room.gameState.phase # "game_over"
          /\ findPlayerIndex(room.gameState, message'.playerId) =
               room.gameState.currentPlayerIndex) =>
          LET gs == room.gameState
              i == gs.currentPlayerIndex
          IN Len(room'.gameState.players[i + 1].hand) =
               Len(gs.players[i + 1].hand) + DrawCardCount(gs)]_vars

\* the action types of the card request sub-protocol
RequestProtocolTypes ==
  {"request_card", "decline_request", "offer_card", "accept_offer", "decline_offer"}

\* the fields of the main turn structure
TurnFields(st) ==
  <<st.currentPlayerIndex, st.direction, st.stackedDrawAmount, st.drawPile,
    st.discardPile, st.silenceMode>>

\* C32: in the client engine request_card, decline_request, offer_card,
\* accept_offer and decline_offer never change the current player index, the
\* direction, the accumulator, the draw pile, the discard pile or the silence
\* flag, whether or not the action takes effect
C32_RequestProtocolKeepsTurn ==
  [][message'.type \in RequestProtocolTypes =>
       TurnFields(state') = TurnFields(state)]_vars

\* every action of the sub-protocol took effect: a request was answered by an
\* offer that was accepted, or by a refusal
C32_Witness ==
  /\ message.type \in {"accept_offer", "decline_offer", "decline_request"}
  /\ outcome = "applied"
  /\ state.phase = "playing"
  /\ \E i \in 1..Len(events) :
       events[i].type \in {"offer_responded", "request_declined"}

\* a game of n players in which the player at index i is to move in
\* direction d
SeatState(n, i, d) ==
  [makeState([k \in 1..n |-> <<>>], <<>>, <<>>) EXCEPT
     !.currentPlayerIndex = i, !.direction = d]

\* advanceTurn and nextPlayer on every game of 2..MaxSeats players
TurnArithmetic ==
  \A n \in 2..MaxSeats, d \in {1, -1} :
    \A i \in 0..(n - 1) :
      /\ advanceTurn([state |-> SeatState(n, i, d), selectedWildColor |-> NoColor,
                      events |-> <<>>, threw |-> FALSE]).state.currentPlayerIndex =
           (i + d + n) % n
      /\ \A skip \in 0..MaxSkip :
           nextPlayer(SeatState(n, i, d), skip) = (i + d * (skip + 1)) % n

\* the turn pointer of a game names a seat and its direction is +1 or -1
TurnInRange(st) ==
  /\ st.currentPlayerIndex \in 0..(Len(st.players) - 1)
  /\ st.direction \in {1, -1}

\* C33: for every player count n >= 2, index i in 0..n-1 and direction d the
\* client advanceTurn yields (i + d + n) mod n and the server nextPlayer(state,
\* skip) yields the result of skip + 1 such steps; currentPlayerIndex stays in
\* 0..n-1 and direction stays +1 or -1 in every reachable state of the engine
\* and of the host
C33_TurnArithmetic ==
  /\ TurnArithmetic
  /\ TurnInRange(state)
  /\ TurnInRange(room.gameState)

\* the engine and the host moved the turn backwards from seat 0 to the last
\* seat of a game of more than two players
C33_Witness ==
  /\ outcome = "applied"
  /\ message.type \in {"play_card", "draw_card", "pass_turn"}
  /\ Len(state.players) > 2
  /\ state.direction = -1
  /\ state.currentPlayerIndex = Len(state.players) - 1
  /\ room.gameState.direction = -1
  /\ room.gameState.currentPlayerIndex = Len(room.gameState.players) - 1

\* C34: in the server host, whenever a play_card empties the hand of the
\* acting player, the state right after handleAction has phase game_over and
\* that player as winner, for in-turn plays, jump-ins and a wild card played
\* without a color
C34_ServerEmptyHandWins ==
  [][(/\ message'.type = "play_card"
      /\ outcome' = "handled"
      /\ findPlayerIndex(room.gameState, message'.playerId) # -1
      /\ SrvHand(room.gameState, message'.playerId) # <<>>
      /\ SrvHand(room'.gameState, message'.playerId) = <<>>) =>
       /\ room'.gameState.phase = "game_over"
       /\ room'.gameState.winner = message'.playerId]_vars

\* C35: in the server host, a play_card from a player who is not the current
\* player is applied only if jumpIn is enabled and the card has the same color
\* and the same numeric value as the discard top; skip, reverse, draw-two and
\* wild cards are never accepted out of turn
C35_ServerJumpInNeedsNumber ==
  [][(/\ message'.type = "play_card"
      /\ outcome' = "handled"
      /\ findPlayerIndex(room.gameState, message'.playerId) \notin
           {-1, room.gameState.currentPlayerIndex}
      /\ room'.gameState # room.gameState) =>
       /\ room.config.enabledRules.jumpIn
       /\ isExactMatch(message'.cardId, srvGetTopCard(room.gameState))]_vars

\* the color is the color of a non-wild top, or a color a player chose for a
\* wild top
ColorOfTopOrChosen(color, topCard, chosen) ==
  /\ color \in SeqToSet(COLORS)
  /\ Color(topCard) # "wild" => color = Color(topCard)
  /\ Color(topCard) = "wild" => chosen \in SeqToSet(COLORS) /\ color = chosen

\* C36: in every reachable state of phase playing, in the client engine and in
\* the server host, the effective color used for legality is one of red,
\* yellow, green, blue: the color of the discard top when the top is not wild,
\* and the color a player chose when the top is wild; never wild and never a
\* default that no player chose
C36_EffectiveColorIsChosen ==
  /\ state.phase = "playing" =>
       ColorOfTopOrChosen(engineCurrentColor(Engine), getTopCard(state),
                          selectedWildColor)
  /\ room.gameState.phase = "playing" =>
       ColorOfTopOrChosen(srvEffectiveColor(room.gameState),
                          srvGetTopCard(room.gameState),
                          room.gameState.selectedWildColor)

\* the action comes from a player other than the one who may answer the
\* pending request or the pending offer of the game
NotTheDecider(st, action) ==
  \/ /\ st.phase = "card_request"
     /\ action.type \in {"decline_request", "offer_card"}
     /\ action.playerId # st.pendingAction.targetPlayer
  \/ /\ st.phase = "offering_card"
     /\ action.type \in {"accept_offer", "decline_offer"}
     /\ action.playerId # st.pendingAction.requesterId

\* the fields an answer to a request or to an offer writes
AnswerFields(st) == <<st.phase, st.pendingAction, Hands(st)>>

\* C37: in the client engine and in the server host, in phase card_request
\* only the requested target can make decline_request or offer_card take
\* effect, and in phase offering_card only the original requester can make
\* accept_offer or decline_offer take effect; the same action from any other
\* player leaves phase, pendingAction and all hands unchanged
C37_OnlyDeciderAnswers ==
  [][/\ NotTheDecider(state, message') =>
          AnswerFields(state') = AnswerFields(state)
     /\ NotTheDecider(room.gameState, message') =>
          AnswerFields(room'.gameState) = AnswerFields(room.gameState)]_vars

\* the step plays a card of a player who declared UNO with the previous
\* action, holding exactly 2 cards, and leaves that player with 1 card
PlaysAfterDeclaring ==
  /\ state.lastAction.type = "call_uno"
  /\ message'.type = "play_card"
  /\ message'.playerId = state.lastAction.playerId
  /\ outcome' = "applied"
  /\ Len(HandIn(state, message'.playerId)) = 2
  /\ state.players[findPlayerIndex(state, message'.playerId) + 1].hasCalledUno
  /\ Len(HandIn(state', message'.playerId)) = 1

\* C38: in the client engine, a player who called UNO while holding exactly 2
\* cards and then plays one of them cannot be caught: while that player holds
\* 1 card after the declaration, every catch_uno aimed at them is rejected
C38_DeclaredUnoCannotBeCaught ==
  [][PlaysAfterDeclaring =>
       \A catcher \in 1..Len(state.players) :
         ~validateAction(
            [state |-> state', selectedWildColor |-> selectedWildColor',
             events |-> <<>>, threw |-> FALSE],
            Act("catch_uno", catcher, Undefined, message'.playerId, NoColor, "none")).valid]_vars

\* the type of pending action that belongs to a phase
PendingTypeOf(phase) ==
  CASE phase = "slap_race" -> "slap"
    [] phase = "custom_rule_creation" -> "create_rule"
    [] phase = "card_request" -> "card_request"
    [] phase = "offering_card" -> "offer_decision"
    [] OTHER -> NullPending.type

\* C39: in every reachable state of the client engine whose phase is not
\* game_over, pendingAction is null exactly when the phase is playing, and its
\* type is slap in slap_race, create_rule in custom_rule_creation,
\* card_request in card_request and offer_decision in offering_card
C39_PhaseMatchesPending ==
  state.phase # "game_over" =>
    /\ (state.pendingAction = NullPending) <=> (state.phase = "playing")
    /\ state.pendingAction.type = PendingTypeOf(state.phase)

\* an offer has just been made: the engine went from card_request to
\* offering_card
C39_Witness ==
  /\ message.type = "offer_card"
  /\ outcome = "applied"
  /\ state.phase = "offering_card"
  /\ state.pendingAction.type = "offer_decision"
  /\ state.lastAction.type = "offer_card"

\* C40: the server host applies a game_action only on behalf of the player
\* bound to the submitting socket: an action whose playerId names another
\* player of the same room changes nothing in the GameState of the room
C40_OnlySocketOwnerActs ==
  [][("sender" \in DOMAIN message' /\ message'.playerId # message'.sender) =>
       room'.gameState = room.gameState]_vars

====
